---- MODULE Spec2Model ----
(***************************************************************************)
(* Model of the 2D Stable Fluids program (main.c): the per-frame pipeline  *)
(* of simulate(), the Red-Black SOR pressure solve, the projection and the *)
(* joint divergence histogram.                                             *)
(*                                                                         *)
(* Numbers.  The program computes in 32-bit floats.  The model computes    *)
(* exactly, in fixed point: a field value x stands for x / One, with One a *)
(* power of two large enough that every division of the solve is exact     *)
(* for the iteration budgets the model allows.  Rounding is not modelled.  *)
(*                                                                         *)
(* Kernels.  The compute shaders (shaders/*.comp) are not among the        *)
(* sources; the host code that binds their images, dispatches them and     *)
(* orders them is.  The kernels are modelled from their documented         *)
(* contract (README.md, "Pressure Solver Details", "Consistent Operators") *)
(* on the textures main.c allocates.                                       *)
(***************************************************************************)
EXTENDS Integers, Sequences, FiniteSets, TLC

----------------------------------------------------------------------------
(* Bounds of the model *)

\* side of the grid (SIM_WIDTH = SIM_HEIGHT = 512 in the program)
N == 3

\* largest value of pressureIterations
MaxIter == 2

\* largest magnitude of an input velocity sample, in cells
MaxVal == 1

\* largest number of half-sweeps one run of the kernel harness dispatches
MaxSweeps == 3

\* largest number of programs whose loading goes wrong in one start
MaxFaults == 2

\* largest number of counts in a histogram handed to the host reductions
MaxCells == 4

\* largest number of candidates one omega search tests
MaxSamples == 3

\* largest number of force injections between two steps
MaxForces == 2

\* largest number of calls of simulate and addForce in one command stream
MaxCalls == 3

\* largest number of histogram invocations between classification and increment
MaxInFlight == 2

\* main loop: the number of frames followed
MaxFrames == 2

\* stencil comparison: the side of the pressure grid
StencilN == 5

----------------------------------------------------------------------------
(* Program constants *)

SIM_WIDTH == N
SIM_HEIGHT == N

\* unsigned int histogram[32 * 32]
NumBins == 32

\* bins are reported as (bin - 24)
BinOffset == 24

\* pressureOmega is a float; the model holds it as a numerator over OmegaDen
OmegaDen == 2

\* omega in the open interval (0, 2)
Omegas == 1 .. (2 * OmegaDen - 1)

\* testOmega calls simulate(0.016f); the model takes the step as 1 / 2^DtBits
DtBits == 6
DtDen == 2 ^ DtBits

\* int bestWorstCount = INT_MAX
IntMax == 2147483647

\* one half-sweep divides by 4 and by OmegaDen, one advection by DtDen
ScaleBits == 3 * 2 * MaxIter + DtBits
One == 2 ^ ScaleBits

Cells == (0 .. SIM_WIDTH - 1) \X (0 .. SIM_HEIGHT - 1)

\* the invocations of one dispatch, in row-major order
CellOrder == [k \in 1 .. SIM_WIDTH * SIM_HEIGHT |->
                 <<(k - 1) % SIM_WIDTH, (k - 1) \div SIM_WIDTH>>]

ZeroField == [c \in Cells |-> 0]
ZeroVel == [c \in Cells |-> [x |-> 0, y |-> 0]]

Abs(v) == IF v < 0 THEN 0 - v ELSE v

----------------------------------------------------------------------------
(* Texture access *)

InTexture(x, y) == x \in 0 .. SIM_WIDTH - 1 /\ y \in 0 .. SIM_HEIGHT - 1

\* a load whose coordinates are clamped to the edge texel, as a sampler with
\* GL_CLAMP_TO_EDGE reads
PressureLoadClamped(p, x, y) ==
    LET cx == IF x < 0 THEN 0 ELSE IF x > SIM_WIDTH - 1 THEN SIM_WIDTH - 1 ELSE x
        cy == IF y < 0 THEN 0 ELSE IF y > SIM_HEIGHT - 1 THEN SIM_HEIGHT - 1 ELSE y
    IN  p[<<cx, cy>>]

\* a pressure neighbour outside the domain reads as 0 (Dirichlet)
PressureLoad(p, x, y) == IF InTexture(x, y) THEN p[<<x, y>>] ELSE 0

\* the velocity texture is SIM_WIDTH x SIM_HEIGHT texels of (x, y); an image
\* load of a texel that does not exist returns 0
VelocityLoad(vel, x, y) ==
    IF InTexture(x, y) THEN vel[<<x, y>>] ELSE [x |-> 0, y |-> 0]

\* createTextures: each velocity slot is one GL_RG32F image of SIM_WIDTH x
\* SIM_HEIGHT texels holding both components
VelocityTexels == (0 .. SIM_WIDTH - 1) \X (0 .. SIM_HEIGHT - 1)

\* the faces the divergence of cell c reads: x component at columns i and
\* i + 1 of row j, y component at rows j and j + 1 of column i
FaceReads(c) ==
    {<<c[1], c[2]>>, <<c[1] + 1, c[2]>>, <<c[1], c[2] + 1>>}

----------------------------------------------------------------------------
(* Kernels *)

\* divergence.comp: forward differences, right face minus left face plus top
\* face minus bottom face; texel (i,j) holds the left and the bottom face of
\* cell (i,j)
Divergence(vel) ==
    [c \in Cells |->
        (VelocityLoad(vel, c[1] + 1, c[2]).x - vel[c].x)
      + (VelocityLoad(vel, c[1], c[2] + 1).y - vel[c].y)]

\* backward differences of the two pressure cells adjacent to a face
Gradient(p) ==
    [c \in Cells |->
        [x |-> p[c] - PressureLoad(p, c[1] - 1, c[2]),
         y |-> p[c] - PressureLoad(p, c[1], c[2] - 1)]]

\* the gradient added to the velocity
GradientAdd(p, vel) ==
    LET g == Gradient(p)
    IN  [c \in Cells |-> [x |-> vel[c].x + g[c].x, y |-> vel[c].y + g[c].y]]

\* gradient_subtract.comp: one invocation per texel of the velocity texture
GradientSubtract(p, vel) ==
    LET g == Gradient(p)
    IN  [c \in Cells |-> [x |-> vel[c].x - g[c].x, y |-> vel[c].y - g[c].y]]

\* the Gauss-Seidel value p_GS alone, without over-relaxation
RelaxGaussSeidel(p, d, w, c) ==
    (  PressureLoad(p, c[1] - 1, c[2]) + PressureLoad(p, c[1] + 1, c[2])
     + PressureLoad(p, c[1], c[2] - 1) + PressureLoad(p, c[1], c[2] + 1)
     - d[c]) \div 4

\* pressure.comp: p_GS = (pL + pR + pB + pT - div) / 4,
\*                p_new = p_old + omega * (p_GS - p_old)
Relax(p, d, w, c) ==
    LET s ==   PressureLoad(p, c[1] - 1, c[2]) + PressureLoad(p, c[1] + 1, c[2])
             + PressureLoad(p, c[1], c[2] - 1) + PressureLoad(p, c[1], c[2] + 1)
             - d[c]
    IN  p[c] + (w * (s - 4 * p[c])) \div (4 * OmegaDen)

\* a colouring by column parity, in which horizontal neighbours only differ
ActiveByColumn(c, redPass) == (c[1] % 2 = 0) <=> (redPass = 1)

\* no colour test: every invocation updates its cell
ActiveEveryCell(c, redPass) == TRUE

\* red cells: (x + y) even, updated when redPass = 1; black cells otherwise
Active(c, redPass) == ((c[1] + c[2]) % 2 = 0) <=> (redPass = 1)

\* one invocation of pressure.comp, in place on the bound pressure image
HalfSweepCell(p, d, w, redPass, c) ==
    IF Active(c, redPass) THEN [p EXCEPT ![c] = Relax(p, d, w, c)] ELSE p

\* the invocations of a dispatch run one after the other, each on the image
\* the one before it left (the image is bound to a value before the next
\* invocation is applied to it)
RECURSIVE SweepFrom(_, _, _, _, _)
SweepFrom(p, d, w, redPass, k) ==
    IF k > SIM_WIDTH * SIM_HEIGHT THEN p
    ELSE CHOOSE out \in {SweepFrom(q, d, w, redPass, k + 1) :
                            q \in {HalfSweepCell(p, d, w, redPass, CellOrder[k])}} : TRUE

\* one dispatch of pressure.comp followed by its barrier
HalfSweep(p, d, w, redPass) == SweepFrom(p, d, w, redPass, 1)

\* the whole pressure solve of simulate: the pressure image cleared, then
\* for (i = 0; i < n; i++) { Red; barrier; Black; barrier }
RECURSIVE SolveFrom(_, _, _, _, _)
SolveFrom(p, d, w, i, n) ==
    IF i < n
    THEN CHOOSE out \in {SolveFrom(q, d, w, i + 1, n) :
                            q \in {HalfSweep(HalfSweep(p, d, w, 1), d, w, 0)}} : TRUE
    ELSE p

Sgn(v) == IF v > 0 THEN 1 ELSE IF v < 0 THEN 0 - 1 ELSE 0

\* a sampler fetch: coordinates outside the texture are clamped to the edge
\* texel (GL_CLAMP_TO_EDGE)
TexelClamped(vel, x, y) ==
    vel[<<IF x < 0 THEN 0 ELSE IF x > SIM_WIDTH - 1 THEN SIM_WIDTH - 1 ELSE x,
          IF y < 0 THEN 0 ELSE IF y > SIM_HEIGHT - 1 THEN SIM_HEIGHT - 1 ELSE y>>]

\* a speed in units of 1 / DtDen cells per second
Steps(v) == Abs(v) \div (One \div DtDen)

\* a + (b - a) * dt * speed, the speed given in Steps
Lerp(a, b, q) == a + ((b - a) \div (DtDen * DtDen)) * q

\* advect.comp: the field sampled bilinearly at pos - dt * velocity(pos), for
\* a backtrace shorter than one cell
Advect(vel) ==
    [c \in Cells |->
        LET u == vel[c]
            qx == Steps(u.x)
            qy == Steps(u.y)
            x1 == c[1] - Sgn(u.x)
            y1 == c[2] - Sgn(u.y)
            t00 == TexelClamped(vel, c[1], c[2])
            t10 == TexelClamped(vel, x1, c[2])
            t01 == TexelClamped(vel, c[1], y1)
            t11 == TexelClamped(vel, x1, y1)
        IN  [x |-> Lerp(Lerp(t00.x, t10.x, qx), Lerp(t01.x, t11.x, qx), qy),
             y |-> Lerp(Lerp(t00.y, t10.y, qx), Lerp(t01.y, t11.y, qx), qy)]]

\* float forceScale = 300.0f * SIM_WIDTH
ForceScale == 300 * SIM_WIDTH

\* screen deltas are held in units of 1 / DragDen, so that every force of the
\* model is a whole number of cells per second
DragDen == ForceScale

\* float fx = dx * forceScale; float fy = dy * forceScale
HostForce(dx, dy) ==
    [x |-> (dx * ForceScale) \div DragDen, y |-> (dy * ForceScale) \div DragDen]

\* the ceiling on an injected velocity, in cells per second
MaxSpeed == 3840

\* the largest r with r * r <= n
RECURSIVE IsqrtFrom(_, _, _)
IsqrtFrom(n, lo, hi) ==
    IF lo >= hi THEN lo
    ELSE LET mid == (lo + hi + 1) \div 2
         IN  IF mid * mid <= n THEN IsqrtFrom(n, mid, hi)
             ELSE IsqrtFrom(n, lo, mid - 1)

Isqrt(n) == IsqrtFrom(n, 0, 46340)

Length(f) == Isqrt(f.x * f.x + f.y * f.y)

\* each component clamped to +-MaxSpeed on its own
ClampComponents(f) ==
    LET Limit(v) == IF v > MaxSpeed THEN MaxSpeed
                    ELSE IF v < 0 - MaxSpeed THEN 0 - MaxSpeed ELSE v
    IN  [x |-> Limit(f.x), y |-> Limit(f.y)]

\* the injected velocity with its magnitude clamped to the ceiling
ClampMagnitude(f) ==
    CHOOSE g \in {IF len > MaxSpeed
                  THEN [x |-> (f.x * MaxSpeed) \div len, y |-> (f.y * MaxSpeed) \div len]
                  ELSE f : len \in {Length(f)}} : TRUE

\* the radial falloff, in units of 1 / WeightDen: full weight in the cell of
\* the point, half weight in its four neighbours, none further away
WeightDen == 2

Weight(c, pt) ==
    LET d2 == (c[1] - pt[1]) * (c[1] - pt[1]) + (c[2] - pt[2]) * (c[2] - pt[2])
    IN  IF d2 = 0 THEN WeightDen ELSE IF d2 = 1 THEN 1 ELSE 0

\* add_force.comp, in place on one velocity texture whose values are held in
\* units of 1 / WeightDen cells per second
AddForceKernel(vel, pt, f) ==
    CHOOSE out \in {[c \in Cells |-> [x |-> vel[c].x + Weight(c, pt) * g.x,
                                       y |-> vel[c].y + Weight(c, pt) * g.y]] :
                        g \in {ClampMagnitude(f)}} : TRUE

----------------------------------------------------------------------------
(* Histogram *)

RECURSIVE FloorLog2(_)
FloorLog2(m) == IF m <= 1 THEN 0 ELSE 1 + FloorLog2(m \div 2)

Clamp(v, lo, hi) == IF v < lo THEN lo ELSE IF v > hi THEN hi ELSE v

\* floor(log2) + offset as it comes, without the clamp
BinOfUnclamped(m, e) == IF m = 0 THEN 0 ELSE FloorLog2(m) + e + BinOffset

\* the bin of the magnitude m * 2^e: floor(log2) + offset, clamped to the table
BinOf(m, e) ==
    IF m = 0 THEN 0 ELSE Clamp(FloorLog2(m) + e + BinOffset, 0, NumBins - 1)

\* rows are post-bins, columns are pre-bins: histogram[post * 32 + pre]
StatsIndex(pre, post) == post * NumBins + pre

HistAt(h, i) == IF i \in DOMAIN h THEN h[i] ELSE 0

HistInc(h, i) == IF i \in DOMAIN h THEN [h EXCEPT ![i] = @ + 1] ELSE h @@ (i :> 1)

HistTotal(h) ==
    LET RECURSIVE Sum(_)
        Sum(S) == IF S = {} THEN 0
                  ELSE LET i == CHOOSE j \in S : TRUE IN h[i] + Sum(S \ {i})
    IN  Sum(DOMAIN h)

\* a buffer left as it was
ClearStats2DKeep(h) == h

\* clearStats2D: the whole buffer is overwritten with zeros
ClearStats2D(h) == [i \in {} |-> 0]

\* divergence_stats.comp: one invocation per cell, one atomic increment each
StatsInvoke(h, preMant, preExp, postMant, postExp) ==
    HistInc(h, StatsIndex(BinOf(preMant, preExp), BinOf(postMant, postExp)))

\* the histogram entry of cell c
CellIndex(pre, post, c) ==
    StatsIndex(BinOf(Abs(pre[c]), 0 - ScaleBits), BinOf(Abs(post[c]), 0 - ScaleBits))

\* an increment that stores the count read earlier plus one
PlainAdd(h, i, seen) ==
    [j \in DOMAIN h \cup {i} |-> IF j = i THEN seen + 1 ELSE h[j]]

\* atomicAdd(histogram[i], 1): the count as it stands when the increment is
\* performed, plus one, whatever the invocation saw before
AtomicAdd(h, i, seen) == HistInc(h, i)

RECURSIVE StatsFrom(_, _, _, _)
StatsFrom(h, pre, post, k) ==
    IF k > SIM_WIDTH * SIM_HEIGHT THEN h
    ELSE LET c == CellOrder[k]
         IN  CHOOSE out \in {StatsFrom(g, pre, post, k + 1) :
                                g \in {StatsInvoke(h, Abs(pre[c]), 0 - ScaleBits,
                                                      Abs(post[c]), 0 - ScaleBits)}} : TRUE

ComputeStats2D(h, pre, post) == StatsFrom(h, pre, post, 1)

----------------------------------------------------------------------------
(* Histogram reductions on the host *)

\* for (pre = 0; pre < 32; pre++) total += histogram[post * 32 + pre], from pre
RECURSIVE RowFrom(_, _, _)
RowFrom(h, post, pre) ==
    IF pre >= NumBins THEN 0
    ELSE HistAt(h, StatsIndex(pre, post)) + RowFrom(h, post, pre + 1)

\* the sum of a column, the histogram read with its two indices exchanged
RowTotalTransposed(h, post) ==
    LET RECURSIVE ColFrom(_)
        ColFrom(k) == IF k >= NumBins THEN 0
                      ELSE HistAt(h, StatsIndex(post, k)) + ColFrom(k + 1)
    IN  ColFrom(0)

\* postSums[post]: the total of one row
RowTotal(h, post) == RowFrom(h, post, 0)

\* preSums[pre]: the total of one column
ColTotal(h, pre) ==
    LET RECURSIVE ColFrom(_)
        ColFrom(post) == IF post >= NumBins THEN 0
                         ELSE HistAt(h, StatsIndex(pre, post)) + ColFrom(post + 1)
    IN  ColFrom(0)

\* evaluateConvergence: for (post = 31; post >= 0; post--), the first row with
\* a non-zero total ends the loop; worstBin and worstCount start at 0
RECURSIVE WorstFrom(_, _)
WorstFrom(h, post) ==
    IF post < 0 THEN [worstBin |-> 0, worstCount |-> 0]
    ELSE IF RowTotal(h, post) > 0
         THEN [worstBin |-> post, worstCount |-> RowTotal(h, post)]
         ELSE WorstFrom(h, post - 1)

EvaluateConvergence(h) == WorstFrom(h, NumBins - 1)

\* the bin value -1 marks a slot as not filled
Unused == 0 - 1

\* getTopBins: the three slots of one axis start as bin -1, count 0
EmptySlots == [bins |-> <<Unused, Unused, Unused>>, counts |-> <<0, 0, 0>>]

\* for (i = 0; i < 3; i++) if (bins[i] == -1) { bins[i] = b - 24; counts[i] = sum; break; }
RECURSIVE FillFrom(_, _, _, _)
FillFrom(slots, b, sum, i) ==
    IF i > 3 THEN slots
    ELSE IF slots.bins[i] = Unused
         THEN [bins |-> [slots.bins EXCEPT ![i] = b - BinOffset],
               counts |-> [slots.counts EXCEPT ![i] = sum]]
         ELSE FillFrom(slots, b, sum, i + 1)

\* for (b = 31; b >= 0; b--) if (sums[b] > 0) fill the first free slot
RECURSIVE TopFrom(_, _, _)
TopFrom(sums, b, slots) ==
    IF b < 0 THEN slots
    ELSE CHOOSE out \in {TopFrom(sums, b - 1, next) :
                            next \in {IF sums[b] > 0 THEN FillFrom(slots, b, sums[b], 1)
                                                     ELSE slots}} : TRUE

GetTopBins(h) ==
    LET preSums == [b \in 0 .. NumBins - 1 |-> ColTotal(h, b)]
        postSums == [b \in 0 .. NumBins - 1 |-> RowTotal(h, b)]
    IN  [pre |-> TopFrom(preSums, NumBins - 1, EmptySlots),
         post |-> TopFrom(postSums, NumBins - 1, EmptySlots)]

\* the overlay of main: for (i = 0; i < 3 && bins[i] != -1; i++) one line
\* "bin %d: %d cells" per slot
RECURSIVE OverlayFrom(_, _)
OverlayFrom(slots, i) ==
    IF i > 3 \/ slots.bins[i] = Unused THEN <<>>
    ELSE <<[bin |-> slots.bins[i], cells |-> slots.counts[i]]>>
             \o OverlayFrom(slots, i + 1)

Overlay(slots) == OverlayFrom(slots, 1)

\* printStats2DTable: minCol = 31 and maxCol = 0, then lowered and raised to
\* every column that holds a count
ActiveCols(h) == {pre \in 0 .. NumBins - 1 : ColTotal(h, pre) > 0}

\* a range that always starts at the first column
MinColUntrimmed(active) == 0

MinCol(active) ==
    IF active = {} THEN NumBins - 1
    ELSE CHOOSE a \in active : \A b \in active : a <= b

MaxCol(active) ==
    IF active = {} THEN 0
    ELSE CHOOSE a \in active : \A b \in active : a >= b

\* hasData: the row holds a count in one of the columns minCol..maxCol
HasData(h, post, minCol, maxCol) ==
    \E pre \in minCol .. maxCol : HistAt(h, StatsIndex(pre, post)) > 0

\* the columns of the header line and the rows printed under it, as bin indices
PrintStats2DTable(h) ==
    LET active == ActiveCols(h)
        minCol == MinCol(active)
        maxCol == MaxCol(active)
    IN  IF minCol > maxCol THEN [cols |-> <<>>, rows |-> <<>>]
        ELSE [cols |-> [k \in 1 .. maxCol - minCol + 1 |-> minCol + k - 1],
              rows |-> SelectSeq([k \in 1 .. NumBins |-> k - 1],
                                 LAMBDA post : HasData(h, post, minCol, maxCol))]

----------------------------------------------------------------------------
(* Inputs *)

\* the grid centre (setupImpulseTest) and a cell of the last column
ProbeCells == {<<SIM_WIDTH \div 2, SIM_HEIGHT \div 2>>,
               <<SIM_WIDTH - 1, SIM_HEIGHT \div 2>>}

\* the unit impulse of setupImpulseTest and the two extremes
Amplitudes == {0 - MaxVal, 1, MaxVal}

ImpulseVel(c, comp, a) ==
    [ZeroVel EXCEPT ![c] = IF comp = "x" THEN [x |-> a * One, y |-> 0]
                                       ELSE [x |-> 0, y |-> a * One]]

\* the velocity fields a self-advection pass may leave in its output texture
VelFields ==
    {ZeroVel} \cup {ImpulseVel(c, comp, a) :
                       c \in ProbeCells, comp \in {"x", "y"}, a \in Amplitudes}

\* what a texture or buffer allocated without data may hold
UninitFields == {ZeroField, [c \in Cells |-> One]}
UninitStats == {[i \in {} |-> 0], (0 :> 1)}

----------------------------------------------------------------------------
(* State *)

VARIABLES
    velocityTex,         \* velocityTex[2]: texel -> (x, y)
    pressureTex,         \* pressureTex[2]: cell -> value
    divergenceTex,       \* pre-projection divergence
    postDivergenceTex,   \* post-projection divergence
    densityTex,          \* densityTex[2]: what wrote the slot, from which velocity
    statsBuffer,         \* DivergenceStats2D.histogram, the non-zero entries
    currentVel, currentPressure, currentDensity,
    pressureIterations, pressureOmega,
    redPass,             \* the redPass uniform of pressureProgram
    pc,                  \* the pass simulate() issues next, "idle" between frames
    iter,                \* the loop variable i of the pressure solve
    velStamp,            \* per velocity slot: the pass that wrote it, and whether
                         \* that was in the current call of simulate (age 0) or before
    passLog,             \* the passes issued so far by the current call of simulate
    warm,                \* the pressure buffer held a non-zero value when last cleared
    pending,             \* kernel harness: invocations of the dispatch still to run
    pStart,              \* kernel harness: the pressure image when the dispatch began
    sweepLog,            \* kernel harness: the redPass values dispatched so far
    sample,              \* histogram harness: the (pre, post) magnitudes of one cell
    programs,            \* main: the shader programs loaded so far, in load order
    report,              \* what the last histogram reduction on the host returned
    search,              \* runOmegaSearch: its parameters, loop variable and best so far
    inject,              \* addForce: the calls so far, the last force and the field before it
    loaded,              \* harnesses: cell -> what its invocation has read or computed and not stored
    gpu,                 \* command stream: the call running, its position, writes not yet made visible
    mousePressed,        \* int mousePressed
    lastMouseX, lastMouseY,
    events               \* the last left-button action, the last input event
                         \* and the last cursor position delivered, and the
                         \* frames simulated so far

vars == <<velocityTex, pressureTex, divergenceTex, postDivergenceTex, densityTex,
          statsBuffer, currentVel, currentPressure, currentDensity,
          pressureIterations, pressureOmega, redPass, pc, iter, velStamp, passLog,
          warm, pending, pStart, sweepLog, sample, programs, report, search,
          inject, loaded, gpu, mousePressed, lastMouseX, lastMouseY, events>>

textures == <<velocityTex, pressureTex, divergenceTex, postDivergenceTex, densityTex,
              statsBuffer>>
indices == <<currentVel, currentPressure, currentDensity>>
tuning == <<pressureIterations, pressureOmega>>
harness == <<pending, pStart, sweepLog, sample>>
host == <<programs, report, search>>
input == <<mousePressed, lastMouseX, lastMouseY, events>>
probes == <<inject, loaded, gpu, input>>

\* main loads seven compute programs and two render programs, in this order
ProgramKinds ==
    <<"compute", "compute", "compute", "compute", "compute", "compute", "compute",
      "render", "render">>

\* what can happen to one program: its source cannot be opened, a shader of
\* it fails to compile, the program fails to link, or nothing
Outcomes == {"ok", "open", "compile", "link"}

\* the handle createComputeShader returns: 0 when the source cannot be opened
\* or does not compile; after a failed link the message is printed and the
\* program name is returned all the same
CreateComputeShader(outcome) == IF outcome \in {"open", "compile"} THEN 0 ELSE 1

\* the handle createRenderProgram returns: 0 only when a source cannot be
\* opened; compile and link failures are printed and the program name returned
CreateRenderProgram(outcome) == IF outcome = "open" THEN 0 ELSE 1

CreateProgram(kind, outcome) ==
    IF kind = "compute" THEN CreateComputeShader(outcome)
    ELSE CreateRenderProgram(outcome)

\* every program loaded without a fault
LoadedPrograms ==
    [k \in 1 .. Len(ProgramKinds) |-> [outcome |-> "ok", handle |-> 1]]

NoReport == [op |-> "none"]
NoSearch == [state |-> "none"]
NoInject == [calls |-> 0]
NoLoads == [c \in {} |-> 0]
NoStream == [call |-> "none"]
NoEvents == [left |-> "none", last |-> <<"none">>, cursor |-> <<>>, frames |-> 0]
NoStamp == [kind |-> "none", age |-> 0]
NoSample == [preMant |-> 0, preExp |-> 0, postMant |-> 0, postExp |-> 0]

\* the order with density advection moved to the front of the step
PassOrderDensityFirst ==
    <<"density", "advect", "divergence", "clear", "gradient", "postdiv", "stats">>

\* the order in which simulate() issues its passes; "clear" opens the pressure
\* solve, whose half-sweeps follow it
PassOrder ==
    <<"advect", "divergence", "clear", "gradient", "postdiv", "stats", "density">>

After(p) ==
    IF \E k \in 1 .. Len(PassOrder) - 1 : PassOrder[k] = p
    THEN PassOrder[(CHOOSE k \in 1 .. Len(PassOrder) - 1 : PassOrder[k] = p) + 1]
    ELSE "idle"

\* the loop test with <= in place of <
LoopTestInclusive(i, n) == i <= n

\* for (int i = 0; i < pressureIterations; i++)
LoopTest(i, n) == i < n

\* a pass that writes the slot it reads and leaves the index alone
OtherSame(cur) == cur

\* velocityTex[1 - currentVel], densityTex[1 - currentDensity]: the slot a
\* pass over a double-buffered field writes
Other(cur) == 1 - cur

\* an index assignment that leaves the index where it was
FlipKeep(cur) == cur

\* currentVel = 1 - currentVel; currentDensity = 1 - currentDensity
Flip(cur) == 1 - cur

\* a solver that writes the pressure slot it does not read
PressureTargetOther(cur) == 1 - cur

\* glBindImageTexture(0, pressureTex[currentPressure], ..., GL_READ_WRITE, ...):
\* the slot the half-sweeps write is the one they read
PressureTarget(cur) == cur

\* a post-divergence pass bound to divergenceTex: its output replaces the
\* pre-projection divergence
PostTargetShared(pre, post, out) == [pre |-> out, post |-> post]

\* glBindImageTexture(1, postDivergenceTex, ..., GL_WRITE_ONLY, GL_R32F): what
\* the post-divergence pass leaves in divergenceTex and in postDivergenceTex
PostTarget(pre, post, out) == [pre |-> pre, post |-> out]

\* an image left as it was
ClearTextureRKeep(tex) == tex

\* clearTextureR: the whole SIM_WIDTH x SIM_HEIGHT image is overwritten with zeros
ClearTextureR(tex) == ZeroField

Init ==
    /\ velocityTex = [s \in 0 .. 1 |-> ZeroVel]
    /\ pressureTex = [s \in 0 .. 1 |-> ZeroField]
    /\ divergenceTex \in UninitFields
    /\ postDivergenceTex \in UninitFields
    /\ densityTex = [s \in 0 .. 1 |-> [kind |-> "clear", vel |-> NoStamp]]
    /\ statsBuffer \in UninitStats
    /\ currentVel = 0
    /\ currentPressure = 0
    /\ currentDensity = 0
    /\ pressureIterations \in 1 .. MaxIter
    /\ pressureOmega \in Omegas
    /\ redPass = 0
    /\ pc = "idle"
    /\ iter = 0
    /\ velStamp = [s \in 0 .. 1 |-> [kind |-> "clear", age |-> 1]]
    /\ passLog = <<>>
    /\ warm = FALSE
    /\ pending = {}
    /\ pStart = ZeroField
    /\ sweepLog = <<>>
    /\ sample = NoSample
    /\ programs = LoadedPrograms
    /\ report = NoReport
    /\ search = NoSearch
    /\ inject = NoInject
    /\ loaded = NoLoads
    /\ gpu = NoStream
    /\ mousePressed = 0
    /\ lastMouseX = 0
    /\ lastMouseY = 0
    /\ events = NoEvents

----------------------------------------------------------------------------
(* simulate(), one action per pass *)

\* the main loop calls simulate(dt)
Frame ==
    /\ pc = "idle"
    /\ pc' = PassOrder[1]
    /\ passLog' = <<>>
    /\ velStamp' = [s \in 0 .. 1 |-> [velStamp[s] EXCEPT !.age = 1]]
    /\ UNCHANGED <<textures, indices, tuning, redPass, iter, warm, harness, host, probes>>

\* 1. Advect velocity: reads velocityTex[currentVel], writes the other slot
AdvectVelocity ==
    /\ pc = "advect"
    /\ \E out \in VelFields :
          velocityTex' = [velocityTex EXCEPT ![Other(currentVel)] = out]
    /\ velStamp' = [velStamp EXCEPT ![Other(currentVel)] = [kind |-> "advect", age |-> 0]]
    /\ currentVel' = Flip(currentVel)
    /\ passLog' = Append(passLog, "advect")
    /\ pc' = After("advect")
    /\ UNCHANGED <<pressureTex, divergenceTex, postDivergenceTex, densityTex,
                   statsBuffer, currentPressure, currentDensity, tuning, redPass,
                   iter, warm, harness, host, probes>>

\* 2. Compute divergence of velocityTex[currentVel] into divergenceTex
ComputeDivergence ==
    /\ pc = "divergence"
    /\ divergenceTex' = Divergence(velocityTex[currentVel])
    /\ passLog' = Append(passLog, "divergence")
    /\ pc' = After("divergence")
    /\ UNCHANGED <<velocityTex, pressureTex, postDivergenceTex, densityTex,
                   statsBuffer, indices, tuning, redPass, iter, velStamp, warm,
                   harness, host, probes>>

\* 3. Pressure solve: clear the pressure image, bind it, enter the loop
ClearPressure ==
    /\ pc = "clear"
    /\ pressureTex' = [pressureTex EXCEPT
                          ![currentPressure] = ClearTextureR(pressureTex[currentPressure])]
    /\ warm' = (pressureTex[currentPressure] # ZeroField)
    /\ iter' = 0
    /\ passLog' = Append(passLog, "clear")
    /\ pc' = IF LoopTest(0, pressureIterations) THEN "red" ELSE After("clear")
    /\ UNCHANGED <<velocityTex, divergenceTex, postDivergenceTex, densityTex,
                   statsBuffer, indices, tuning, redPass, velStamp, harness, host, probes>>

\* Red pass and its barrier
RedPass ==
    /\ pc = "red"
    /\ redPass' = 1
    /\ pressureTex' = [pressureTex EXCEPT
                          ![PressureTarget(currentPressure)] =
                              HalfSweep(pressureTex[currentPressure], divergenceTex,
                                        pressureOmega, 1)]
    /\ passLog' = Append(passLog, "red")
    /\ pc' = "black"
    /\ UNCHANGED <<velocityTex, divergenceTex, postDivergenceTex, densityTex,
                   statsBuffer, indices, tuning, iter, velStamp, warm, harness, host, probes>>

\* Black pass and its barrier, then i++ and the loop test
BlackPass ==
    /\ pc = "black"
    /\ redPass' = 0
    /\ pressureTex' = [pressureTex EXCEPT
                          ![PressureTarget(currentPressure)] =
                              HalfSweep(pressureTex[currentPressure], divergenceTex,
                                        pressureOmega, 0)]
    /\ iter' = iter + 1
    /\ passLog' = Append(passLog, "black")
    /\ pc' = IF LoopTest(iter + 1, pressureIterations) THEN "red" ELSE After("clear")
    /\ UNCHANGED <<velocityTex, divergenceTex, postDivergenceTex, densityTex,
                   statsBuffer, indices, tuning, velStamp, warm, harness, host, probes>>

\* 4. Gradient subtraction: reads pressureTex[currentPressure] and
\* velocityTex[currentVel], writes the other velocity slot
SubtractGradient ==
    /\ pc = "gradient"
    /\ velocityTex' = [velocityTex EXCEPT
                          ![Other(currentVel)] =
                              GradientSubtract(pressureTex[currentPressure],
                                               velocityTex[currentVel])]
    /\ velStamp' = [velStamp EXCEPT ![Other(currentVel)] = [kind |-> "project", age |-> 0]]
    /\ currentVel' = Flip(currentVel)
    /\ passLog' = Append(passLog, "gradient")
    /\ pc' = After("gradient")
    /\ UNCHANGED <<pressureTex, divergenceTex, postDivergenceTex, densityTex,
                   statsBuffer, currentPressure, currentDensity, tuning, redPass,
                   iter, warm, harness, host, probes>>

\* post-projection divergence into its own texture
ComputePostDivergence ==
    /\ pc = "postdiv"
    /\ \E t \in {PostTarget(divergenceTex, postDivergenceTex,
                              Divergence(velocityTex[currentVel]))} :
          /\ divergenceTex' = t.pre
          /\ postDivergenceTex' = t.post
    /\ passLog' = Append(passLog, "postdiv")
    /\ pc' = After("postdiv")
    /\ UNCHANGED <<velocityTex, pressureTex, densityTex, statsBuffer,
                   indices, tuning, redPass, iter, velStamp, warm, harness, host, probes>>

\* clearStats2D(); computeStats2D(divergenceTex, postDivergenceTex)
ComputeStats ==
    /\ pc = "stats"
    /\ statsBuffer' = ComputeStats2D(ClearStats2D(statsBuffer), divergenceTex,
                                     postDivergenceTex)
    /\ passLog' = Append(passLog, "stats")
    /\ pc' = After("stats")
    /\ UNCHANGED <<velocityTex, pressureTex, divergenceTex, postDivergenceTex,
                   densityTex, indices, tuning, redPass, iter, velStamp, warm,
                   harness, host, probes>>

\* 5. Advect density: reads velocityTex[currentVel] and densityTex[currentDensity],
\* writes the other density slot
AdvectDensity ==
    /\ pc = "density"
    /\ densityTex' = [densityTex EXCEPT
                         ![Other(currentDensity)] =
                             [kind |-> "advect", vel |-> velStamp[currentVel]]]
    /\ currentDensity' = Flip(currentDensity)
    /\ passLog' = Append(passLog, "density")
    /\ pc' = After("density")
    /\ UNCHANGED <<velocityTex, pressureTex, divergenceTex, postDivergenceTex,
                   statsBuffer, currentVel, currentPressure, tuning, redPass, iter,
                   velStamp, warm, harness, host, probes>>

\* the passes of simulate after self-advection
LaterPass ==
    \/ ComputeDivergence
    \/ ClearPressure
    \/ RedPass
    \/ BlackPass
    \/ SubtractGradient
    \/ ComputePostDivergence
    \/ ComputeStats
    \/ AdvectDensity

Pass == AdvectVelocity \/ LaterPass

Next == Frame \/ Pass

Spec == Init /\ [][Next]_vars

\* simulate() is straight-line code: every pass it has reached is issued
FairSpec == Init /\ [][Next]_vars /\ WF_vars(Pass)

----------------------------------------------------------------------------
(* Kernel harness: pressure.comp dispatched on a zeroed pressure image, one   *)
(* invocation at a time, in any order, with any sequence of redPass values.   *)
(* An invocation whose cell fails the colour test returns at once; it is      *)
(* retired when the dispatch is issued.                                       *)

\* the divergence fields the harness solves for
DivFields ==
    {[ZeroField EXCEPT ![c] = a * One] : c \in ProbeCells, a \in Amplitudes}
    \cup {[c \in Cells |-> a * One] : a \in Amplitudes}

KernelInit ==
    /\ velocityTex = [s \in 0 .. 1 |-> ZeroVel]
    /\ pressureTex = [s \in 0 .. 1 |-> ZeroField]
    /\ divergenceTex \in DivFields
    /\ postDivergenceTex = ZeroField
    /\ densityTex = [s \in 0 .. 1 |-> [kind |-> "clear", vel |-> NoStamp]]
    /\ statsBuffer = [i \in {} |-> 0]
    /\ currentVel = 0
    /\ currentPressure = 0
    /\ currentDensity = 0
    /\ pressureIterations = MaxIter
    /\ pressureOmega \in Omegas
    /\ redPass = 0
    /\ pc = "k_idle"
    /\ iter = 0
    /\ velStamp = [s \in 0 .. 1 |-> [kind |-> "clear", age |-> 1]]
    /\ passLog = <<>>
    /\ warm = FALSE
    /\ pending = {}
    /\ pStart = ZeroField
    /\ sweepLog = <<>>
    /\ sample = NoSample
    /\ programs = LoadedPrograms
    /\ report = NoReport
    /\ search = NoSearch
    /\ inject = NoInject
    /\ loaded = NoLoads
    /\ gpu = NoStream
    /\ mousePressed = 0
    /\ lastMouseX = 0
    /\ lastMouseY = 0
    /\ events = NoEvents

\* glUniform1i(redPass, r); glDispatchCompute
KernelDispatch(r) ==
    /\ pc = "k_idle"
    /\ Len(sweepLog) < MaxSweeps
    /\ redPass' = r
    /\ pStart' = pressureTex[currentPressure]
    /\ pending' = {c \in Cells : Active(c, r)}
    /\ sweepLog' = Append(sweepLog, r)
    /\ pc' = "k_run"
    /\ UNCHANGED <<textures, indices, tuning, iter, velStamp, passLog, warm, sample,
                   host, probes>>

\* one invocation, in place on the pressure image
KernelInvoke(c) ==
    /\ pc = "k_run"
    /\ c \in pending
    /\ pressureTex' = [pressureTex EXCEPT
                          ![currentPressure] =
                              HalfSweepCell(pressureTex[currentPressure], divergenceTex,
                                            pressureOmega, redPass, c)]
    /\ pending' = pending \ {c}
    /\ UNCHANGED <<velocityTex, divergenceTex, postDivergenceTex, densityTex,
                   statsBuffer, indices, tuning, redPass, pc, iter, velStamp,
                   passLog, warm, pStart, sweepLog, sample, host, probes>>

\* glMemoryBarrier: every invocation of the dispatch has completed
KernelBarrier ==
    /\ pc = "k_run"
    /\ pending = {}
    /\ pc' = "k_idle"
    /\ UNCHANGED <<textures, indices, tuning, redPass, iter, velStamp, passLog,
                   warm, harness, host, probes>>

KernelNext ==
    \/ \E r \in {0, 1} : KernelDispatch(r)
    \/ \E c \in Cells : KernelInvoke(c)
    \/ KernelBarrier

KernelSpec == KernelInit /\ [][KernelNext]_vars

----------------------------------------------------------------------------
(* Histogram harness: divergence_stats.comp invoked for one cell whose pre-   *)
(* and post-projection magnitudes are mant * 2^exp, on a cleared buffer.      *)

MaxMant == 2 * MaxVal + 1
ExpRange == (0 - (BinOffset + 3)) .. (NumBins - BinOffset + 3)

Samples ==
    [preMant : 0 .. MaxMant, preExp : ExpRange, postMant : 0 .. 1, postExp : ExpRange]

BinInit ==
    /\ velocityTex = [s \in 0 .. 1 |-> ZeroVel]
    /\ pressureTex = [s \in 0 .. 1 |-> ZeroField]
    /\ divergenceTex = ZeroField
    /\ postDivergenceTex = ZeroField
    /\ densityTex = [s \in 0 .. 1 |-> [kind |-> "clear", vel |-> NoStamp]]
    /\ statsBuffer = ClearStats2D([i \in {} |-> 0])
    /\ currentVel = 0
    /\ currentPressure = 0
    /\ currentDensity = 0
    /\ pressureIterations = MaxIter
    /\ pressureOmega = OmegaDen
    /\ redPass = 0
    /\ pc = "b_ready"
    /\ iter = 0
    /\ velStamp = [s \in 0 .. 1 |-> [kind |-> "clear", age |-> 1]]
    /\ passLog = <<>>
    /\ warm = FALSE
    /\ pending = {}
    /\ pStart = ZeroField
    /\ sweepLog = <<>>
    /\ sample \in Samples
    /\ programs = LoadedPrograms
    /\ report = NoReport
    /\ search = NoSearch
    /\ inject = NoInject
    /\ loaded = NoLoads
    /\ gpu = NoStream
    /\ mousePressed = 0
    /\ lastMouseX = 0
    /\ lastMouseY = 0
    /\ events = NoEvents

BinInvoke ==
    /\ pc = "b_ready"
    /\ statsBuffer' = StatsInvoke(statsBuffer, sample.preMant, sample.preExp,
                                  sample.postMant, sample.postExp)
    /\ pc' = "b_done"
    /\ UNCHANGED <<velocityTex, pressureTex, divergenceTex, postDivergenceTex,
                   densityTex, indices, tuning, redPass, iter, velStamp, passLog,
                   warm, harness, host, probes>>

BinNext == BinInvoke

BinSpec == BinInit /\ [][BinNext]_vars

----------------------------------------------------------------------------
(* Reduction harness: a histogram is accumulated one count at a time, and at  *)
(* any point the host reads it back through evaluateConvergence, getTopBins   *)
(* or printStats2DTable; the run ends with what that call returned.           *)

\* the lowest bin, the bin reported as -1, a bin above it and the highest bin
ProbeBins == {0, BinOffset - 1, BinOffset + 1, NumBins - 1}

\* the (pre, post) pairs counted: the projection does not raise the bin of a cell
ProbePairs == {b \in ProbeBins \X ProbeBins : b[2] <= b[1]}

ReportInit ==
    /\ velocityTex = [s \in 0 .. 1 |-> ZeroVel]
    /\ pressureTex = [s \in 0 .. 1 |-> ZeroField]
    /\ divergenceTex = ZeroField
    /\ postDivergenceTex = ZeroField
    /\ densityTex = [s \in 0 .. 1 |-> [kind |-> "clear", vel |-> NoStamp]]
    /\ statsBuffer = ClearStats2D([i \in {} |-> 0])
    /\ currentVel = 0
    /\ currentPressure = 0
    /\ currentDensity = 0
    /\ pressureIterations = MaxIter
    /\ pressureOmega = OmegaDen
    /\ redPass = 0
    /\ pc = "r_ready"
    /\ iter = 0
    /\ velStamp = [s \in 0 .. 1 |-> [kind |-> "clear", age |-> 1]]
    /\ passLog = <<>>
    /\ warm = FALSE
    /\ pending = {}
    /\ pStart = ZeroField
    /\ sweepLog = <<>>
    /\ sample = NoSample
    /\ programs = LoadedPrograms
    /\ report = NoReport
    /\ search = NoSearch
    /\ inject = NoInject
    /\ loaded = NoLoads
    /\ gpu = NoStream
    /\ mousePressed = 0
    /\ lastMouseX = 0
    /\ lastMouseY = 0
    /\ events = NoEvents

\* one more cell counted at a (pre, post) pair of bins
ReportAccumulate ==
    /\ pc = "r_ready"
    /\ HistTotal(statsBuffer) < MaxCells
    /\ report = NoReport
    /\ \E b \in ProbePairs :
          statsBuffer' = HistInc(statsBuffer, StatsIndex(b[1], b[2]))
    /\ UNCHANGED report
    /\ UNCHANGED <<velocityTex, pressureTex, divergenceTex, postDivergenceTex,
                   densityTex, indices, tuning, redPass, pc, iter, velStamp, passLog,
                   warm, harness, programs, search,
                   probes>>

ReportEvaluate ==
    /\ pc = "r_ready"
    /\ report = NoReport
    /\ report' = [op |-> "evaluate", out |-> EvaluateConvergence(statsBuffer)]
    /\ UNCHANGED <<textures, indices, tuning, redPass, pc, iter, velStamp, passLog,
                   warm, harness, programs, search,
                   probes>>

ReportTopBins ==
    /\ pc = "r_ready"
    /\ report = NoReport
    /\ report' = [op |-> "top", out |-> GetTopBins(statsBuffer)]
    /\ UNCHANGED <<textures, indices, tuning, redPass, pc, iter, velStamp, passLog,
                   warm, harness, programs, search,
                   probes>>

ReportPrint ==
    /\ pc = "r_ready"
    /\ report = NoReport
    /\ report' = [op |-> "print", out |-> PrintStats2DTable(statsBuffer)]
    /\ UNCHANGED <<textures, indices, tuning, redPass, pc, iter, velStamp, passLog,
                   warm, harness, programs, search,
                   probes>>

ReportNext == ReportAccumulate \/ ReportEvaluate \/ ReportTopBins \/ ReportPrint

ReportSpec == ReportInit /\ [][ReportNext]_vars

----------------------------------------------------------------------------
(* Startup: main loads the programs one after the other, tests the handles,   *)
(* and either returns or goes on to create the resources and enter the loop.  *)

Faulted(progs) == {k \in 1 .. Len(progs) : progs[k].outcome # "ok"}

StartupInit ==
    /\ velocityTex = [s \in 0 .. 1 |-> ZeroVel]
    /\ pressureTex = [s \in 0 .. 1 |-> ZeroField]
    /\ divergenceTex \in UninitFields
    /\ postDivergenceTex \in UninitFields
    /\ densityTex = [s \in 0 .. 1 |-> [kind |-> "clear", vel |-> NoStamp]]
    /\ statsBuffer \in UninitStats
    /\ currentVel = 0
    /\ currentPressure = 0
    /\ currentDensity = 0
    /\ pressureIterations \in 1 .. MaxIter
    /\ pressureOmega \in Omegas
    /\ redPass = 0
    /\ pc = "load"
    /\ iter = 0
    /\ velStamp = [s \in 0 .. 1 |-> [kind |-> "clear", age |-> 1]]
    /\ passLog = <<>>
    /\ warm = FALSE
    /\ pending = {}
    /\ pStart = ZeroField
    /\ sweepLog = <<>>
    /\ sample = NoSample
    /\ programs = <<>>
    /\ report = NoReport
    /\ search = NoSearch
    /\ inject = NoInject
    /\ loaded = NoLoads
    /\ gpu = NoStream
    /\ mousePressed = 0
    /\ lastMouseX = 0
    /\ lastMouseY = 0
    /\ events = NoEvents

\* xProgram = createComputeShader(...) / createRenderProgram(...)
LoadProgram ==
    /\ pc = "load"
    /\ Len(programs) < Len(ProgramKinds)
    /\ \E o \in Outcomes :
          /\ o # "ok" => Cardinality(Faulted(programs)) < MaxFaults
          /\ programs' = Append(programs,
                 [outcome |-> o,
                  handle |-> CreateProgram(ProgramKinds[Len(programs) + 1], o)])
    /\ UNCHANGED <<textures, indices, tuning, redPass, pc, iter, velStamp, passLog,
                   warm, harness, report, search,
                   probes>>

\* if (!advectProgram || ... || !textProgram) { ...; return -1; }
\* otherwise the resources are created and the main loop is entered
CheckPrograms ==
    /\ pc = "load"
    /\ Len(programs) = Len(ProgramKinds)
    /\ pc' = IF \E k \in 1 .. Len(programs) : programs[k].handle = 0
             THEN "exit" ELSE "idle"
    /\ UNCHANGED <<textures, indices, tuning, redPass, iter, velStamp, passLog,
                   warm, harness, host, probes>>

StartupNext == LoadProgram \/ CheckPrograms \/ Frame

StartupSpec == StartupInit /\ [][StartupNext]_vars

----------------------------------------------------------------------------
(* runOmegaSearch(omegaMin, omegaMax, numBins): one action per iteration of   *)
(* its loop, which is one call of testOmega and the comparison with the best  *)
(* so far.                                                                    *)

\* the passes one call of simulate issues with n solver iterations
RECURSIVE SweepNames(_)
SweepNames(n) == IF n = 0 THEN <<>> ELSE SweepNames(n - 1) \o <<"red", "black">>

StepLog(n) ==
    <<"advect", "divergence", "clear">> \o SweepNames(n)
        \o <<"gradient", "postdiv", "stats", "density">>

\* float impulse[2] = {1.0f, 0.0f} at (SIM_WIDTH / 2, SIM_HEIGHT / 2)
SetupImpulseTest == ImpulseVel(<<SIM_WIDTH \div 2, SIM_HEIGHT \div 2>>, "x", 1)

\* a velocity texture left as it was
ClearTextureRGKeep(tex) == tex

\* clearTextureRG: the whole image is overwritten with zeros
ClearTextureRG(tex) == ZeroVel

\* glTexSubImage2D(GL_TEXTURE_2D, 0, cx, cy, 1, 1, GL_RG, GL_FLOAT, impulse):
\* one texel of the texture is replaced
ImpulseOn(tex) ==
    [tex EXCEPT ![<<SIM_WIDTH \div 2, SIM_HEIGHT \div 2>>] = [x |-> One, y |-> 0]]

\* what a session may have left in the textures before the search is called:
\* nothing, or a velocity from a drag, a solved pressure and a flipped
\* density index
Leftovers == {"clean", "used"}

LeftVelocity(left) ==
    IF left = "used"
    THEN ImpulseVel(<<SIM_WIDTH - 1, SIM_HEIGHT \div 2>>, "y", MaxVal)
    ELSE ZeroVel

LeftPressure(left) == IF left = "used" THEN [c \in Cells |-> One] ELSE ZeroField

\* the update with <= on the count: of equal scores the last one is kept
BetterOrEqual(worstBin, worstCount, bestWorstBin, bestWorstCount) ==
    \/ worstBin < bestWorstBin
    \/ worstBin = bestWorstBin /\ worstCount <= bestWorstCount

\* if (worstBin < bestWorstBin ||
\*     (worstBin == bestWorstBin && worstCount < bestWorstCount))
Better(worstBin, worstCount, bestWorstBin, bestWorstCount) ==
    \/ worstBin < bestWorstBin
    \/ worstBin = bestWorstBin /\ worstCount < bestWorstCount

\* omega = omegaMin + (omegaMax - omegaMin) * i / (numBins - 1), in units of
\* 1 / OmegaDen
Candidate(omegaMin, omegaMax, numBins, i) ==
    omegaMin + ((omegaMax - omegaMin) * i) \div (numBins - 1)

\* the calls whose candidates are all representable: numBins >= 2 and a step
\* that is a whole number of 1 / OmegaDen
SearchCalls ==
    {call \in Omegas \X Omegas \X (2 .. MaxSamples) :
        \A i \in 0 .. call[3] - 1 :
            ((call[2] - call[1]) * i) % (call[3] - 1) = 0}

SearchInit ==
    /\ \E left \in Leftovers :
          /\ velocityTex = [s \in 0 .. 1 |-> LeftVelocity(left)]
          /\ pressureTex = [s \in 0 .. 1 |-> LeftPressure(left)]
          /\ densityTex = [s \in 0 .. 1 |->
                              [kind |-> IF left = "used" THEN "dye" ELSE "clear",
                               vel |-> NoStamp]]
          /\ currentDensity = IF left = "used" THEN 1 ELSE 0
          /\ \E call \in SearchCalls :
                search = [state |-> "run", omegaMin |-> call[1],
                          omegaMax |-> call[2], numBins |-> call[3], i |-> 0,
                          bestOmega |-> call[1], bestWorstBin |-> NumBins - 1,
                          bestWorstCount |-> IntMax, bestAt |-> 0,
                          tested |-> <<>>, left |-> left]
    /\ divergenceTex \in UninitFields
    /\ postDivergenceTex \in UninitFields
    /\ statsBuffer \in UninitStats
    /\ currentVel = 0
    /\ currentPressure = 0
    /\ pressureIterations \in 1 .. MaxIter
    /\ pressureOmega \in Omegas
    /\ redPass = 0
    /\ pc = "s_run"
    /\ iter = 0
    /\ velStamp = [s \in 0 .. 1 |-> [kind |-> "clear", age |-> 1]]
    /\ passLog = <<>>
    /\ warm = FALSE
    /\ pending = {}
    /\ pStart = ZeroField
    /\ sweepLog = <<>>
    /\ sample = NoSample
    /\ programs = LoadedPrograms
    /\ report = NoReport
    /\ inject = NoInject
    /\ loaded = NoLoads
    /\ gpu = NoStream
    /\ mousePressed = 0
    /\ lastMouseX = 0
    /\ lastMouseY = 0
    /\ events = NoEvents

\* one iteration: omega computed, testOmega(omega, &worstBin, &worstCount),
\* that is pressureOmega = omega; setupImpulseTest(); simulate(0.016f);
\* evaluateConvergence; then the comparison and i++.  tested records the
\* scores returned so far and bestAt the iteration that last replaced the best
TestOmega ==
    /\ pc = "s_run"
    /\ search.i < search.numBins
    /\ \E omega \in {Candidate(search.omegaMin, search.omegaMax, search.numBins,
                                search.i)} :
       \* setupImpulseTest
       \E cv \in {0}, cp \in {0}, cd \in {0} :
       \E vels \in {[s \in 0 .. 1 |->
                        IF s = cv THEN ImpulseOn(ClearTextureRG(velocityTex[s]))
                        ELSE ClearTextureRG(velocityTex[s])]} :
       \E ps \in {[s \in 0 .. 1 |-> ClearTextureR(pressureTex[s])]} :
       \* simulate(0.016f)
       \E adv \in {Advect(vels[cv])} :
       \E velA \in {[vels EXCEPT ![Other(cv)] = adv]} :
       \E cv1 \in {Flip(cv)} :
       \E div \in {Divergence(velA[cv1])} :
       \E p \in {SolveFrom(ClearTextureR(ps[cp]), div, omega, 0, pressureIterations)} :
       \E proj \in {GradientSubtract(p, velA[cv1])} :
       \E velB \in {[velA EXCEPT ![Other(cv1)] = proj]} :
       \E cv2 \in {Flip(cv1)} :
       \E post \in {Divergence(velB[cv2])} :
       \E stats \in {ComputeStats2D(ClearStats2D(statsBuffer), div, post)} :
       \* evaluateConvergence and the comparison
       \E r \in {EvaluateConvergence(stats)} :
       \E better \in {Better(r.worstBin, r.worstCount, search.bestWorstBin,
                             search.bestWorstCount)} :
           /\ pressureOmega' = omega
           /\ velocityTex' = velB
           /\ pressureTex' = [ps EXCEPT ![PressureTarget(cp)] = p]
           /\ divergenceTex' = div
           /\ postDivergenceTex' = post
           /\ statsBuffer' = stats
           /\ densityTex' =
                  [s \in 0 .. 1 |->
                      IF s = Other(cd)
                      THEN [kind |-> "advect", vel |-> [kind |-> "project", age |-> 0]]
                      ELSE [kind |-> "clear", vel |-> NoStamp]]
           /\ velStamp' = [s \in 0 .. 1 |->
                              [kind |-> IF s = cv2 THEN "project" ELSE "advect",
                               age |-> 0]]
           /\ currentVel' = cv2
           /\ currentPressure' = cp
           /\ currentDensity' = Flip(cd)
           /\ warm' = (ps[cp] # ZeroField)
           /\ search' = [search EXCEPT
                  !.i = search.i + 1,
                  !.bestOmega = IF better THEN omega ELSE @,
                  !.bestAt = IF better THEN search.i + 1 ELSE @,
                  !.bestWorstBin = IF better THEN r.worstBin ELSE @,
                  !.bestWorstCount = IF better THEN r.worstCount ELSE @,
                  !.tested = Append(@, [omega |-> omega, worstBin |-> r.worstBin,
                                        worstCount |-> r.worstCount])]
    /\ redPass' = 0
    /\ iter' = pressureIterations
    /\ passLog' = StepLog(pressureIterations)
    /\ UNCHANGED <<pressureIterations, pc, harness, programs, report,
                   probes>>

\* a search that installs the best omega before it returns
ReturnOmegaBest(omega, bestOmega) == bestOmega

\* after the loop the best omega is printed, not assigned: pressureOmega keeps
\* the value the last call of testOmega gave it
ReturnOmega(omega, bestOmega) == omega

\* the loop test fails: the best is printed and returned
SearchReturn ==
    /\ pc = "s_run"
    /\ search.i >= search.numBins
    /\ pc' = "s_done"
    /\ search' = [search EXCEPT !.state = "done"]
    /\ pressureOmega' = ReturnOmega(pressureOmega, search.bestOmega)
    /\ UNCHANGED <<textures, indices, pressureIterations, redPass, iter, velStamp, passLog,
                   warm, harness, programs, report,
                   probes>>

SearchNext == TestOmega \/ SearchReturn

SearchSpec == SearchInit /\ [][SearchNext]_vars

----------------------------------------------------------------------------
(* addForce, called from the cursor callback between two steps.  In this      *)
(* specification the velocity textures hold units of 1 / WeightDen cells per  *)
(* second.                                                                    *)

\* drag directions, each of length DirLen, and drag lengths in units of
\* 1 / DirLen: below the ceiling, at it, and nine times above it
DirLen == 5
Directions == {<<5, 0>>, <<0, 0 - 5>>, <<3, 4>>, <<0 - 4, 3>>}
Strengths == {1, MaxSpeed \div DirLen, 9 * (MaxSpeed \div DirLen)}

ForceInit ==
    /\ velocityTex = [s \in 0 .. 1 |-> ZeroVel]
    /\ pressureTex = [s \in 0 .. 1 |-> ZeroField]
    /\ divergenceTex = ZeroField
    /\ postDivergenceTex = ZeroField
    /\ densityTex = [s \in 0 .. 1 |-> [kind |-> "clear", vel |-> NoStamp]]
    /\ statsBuffer = [i \in {} |-> 0]
    /\ currentVel \in 0 .. 1
    /\ currentPressure = 0
    /\ currentDensity = 0
    /\ pressureIterations = MaxIter
    /\ pressureOmega = OmegaDen
    /\ redPass = 0
    /\ pc = "idle"
    /\ iter = 0
    /\ velStamp = [s \in 0 .. 1 |-> [kind |-> "clear", age |-> 1]]
    /\ passLog = <<>>
    /\ warm = FALSE
    /\ pending = {}
    /\ pStart = ZeroField
    /\ sweepLog = <<>>
    /\ sample = NoSample
    /\ programs = LoadedPrograms
    /\ report = NoReport
    /\ search = NoSearch
    /\ inject = NoInject
    /\ loaded = NoLoads
    /\ gpu = NoStream
    /\ mousePressed = 0
    /\ lastMouseX = 0
    /\ lastMouseY = 0
    /\ events = NoEvents

\* addForce(x, y, dx, dy): the force computed on the host, then the kernel in
\* place on velocityTex[currentVel] and densityTex[currentDensity]
AddForce(pt, dir, len) ==
    /\ pc = "idle"
    /\ inject.calls < MaxForces
    /\ \E f \in {HostForce(dir[1] * len, dir[2] * len)} :
          /\ velocityTex' = [velocityTex EXCEPT
                                ![currentVel] = AddForceKernel(@, pt, f)]
          /\ inject' = [calls |-> inject.calls + 1, point |-> pt, dir |-> dir,
                        force |-> f, before |-> velocityTex[currentVel]]
    /\ densityTex' = [densityTex EXCEPT ![currentDensity].kind = "dye"]
    /\ velStamp' = [velStamp EXCEPT ![currentVel].kind = "force"]
    /\ UNCHANGED <<pressureTex, divergenceTex, postDivergenceTex, statsBuffer,
                   indices, tuning, redPass, pc, iter, passLog, warm, harness,
                   host, loaded, gpu>>

ForceNext == \E pt \in ProbeCells, dir \in Directions, len \in Strengths :
                 AddForce(pt, dir, len) /\ UNCHANGED input

ForceSpec == ForceInit /\ [][ForceNext]_vars

----------------------------------------------------------------------------
(* Race harness: one dispatch of pressure.comp on a pressure image that is    *)
(* not zero, its invocations running concurrently.  An invocation first loads *)
(* its own cell and its four neighbours from the image and computes the new   *)
(* value, and later stores it; loads and stores of different invocations      *)
(* interleave in any order.                                                   *)

\* the pressure images the dispatch starts from
StartFields ==
    {[c \in Cells |-> One]}
        \cup {[ZeroField EXCEPT ![c] = One] : c \in ProbeCells}

RaceInit ==
    /\ velocityTex = [s \in 0 .. 1 |-> ZeroVel]
    /\ \E start \in StartFields :
          pressureTex = [s \in 0 .. 1 |-> IF s = 0 THEN start ELSE ZeroField]
    /\ divergenceTex \in UninitFields
    /\ postDivergenceTex = ZeroField
    /\ densityTex = [s \in 0 .. 1 |-> [kind |-> "clear", vel |-> NoStamp]]
    /\ statsBuffer = [i \in {} |-> 0]
    /\ currentVel = 0
    /\ currentPressure = 0
    /\ currentDensity = 0
    /\ pressureIterations = MaxIter
    /\ pressureOmega \in Omegas
    /\ redPass = 0
    /\ pc = "q_idle"
    /\ iter = 0
    /\ velStamp = [s \in 0 .. 1 |-> [kind |-> "clear", age |-> 1]]
    /\ passLog = <<>>
    /\ warm = FALSE
    /\ pending = {}
    /\ pStart = ZeroField
    /\ sweepLog = <<>>
    /\ sample = NoSample
    /\ programs = LoadedPrograms
    /\ report = NoReport
    /\ search = NoSearch
    /\ inject = NoInject
    /\ loaded = NoLoads
    /\ gpu = NoStream
    /\ mousePressed = 0
    /\ lastMouseX = 0
    /\ lastMouseY = 0
    /\ events = NoEvents

\* glUniform1i(redPass, r); glDispatchCompute: the invocations that fail the
\* colour test return at once
RaceDispatch(r) ==
    /\ pc = "q_idle"
    /\ sweepLog = <<>>
    /\ redPass' = r
    /\ pStart' = pressureTex[currentPressure]
    /\ pending' = {c \in Cells : Active(c, r)}
    /\ sweepLog' = <<r>>
    /\ pc' = "q_run"
    /\ UNCHANGED <<textures, indices, tuning, iter, velStamp, passLog, warm, sample,
                   host, probes>>

\* the invocation of cell c reads the image and computes its new value
RaceLoad(c) ==
    /\ pc = "q_run"
    /\ c \in pending
    /\ loaded' = (c :> Relax(pressureTex[currentPressure], divergenceTex,
                              pressureOmega, c)) @@ loaded
    /\ pending' = pending \ {c}
    /\ UNCHANGED <<textures, indices, tuning, redPass, pc, iter, velStamp, passLog,
                   warm, pStart, sweepLog, sample, host, inject, gpu, input>>

\* the invocation of cell c stores its value into the image and ends
RaceStore(c) ==
    /\ pc = "q_run"
    /\ c \in DOMAIN loaded
    /\ pressureTex' = [pressureTex EXCEPT ![currentPressure][c] = loaded[c]]
    /\ loaded' = [b \in DOMAIN loaded \ {c} |-> loaded[b]]
    /\ UNCHANGED <<velocityTex, divergenceTex, postDivergenceTex, densityTex,
                   statsBuffer, indices, tuning, redPass, pc, iter, velStamp,
                   passLog, warm, harness, host, inject, gpu, input>>

\* glMemoryBarrier: every invocation of the dispatch has completed
RaceBarrier ==
    /\ pc = "q_run"
    /\ pending = {}
    /\ loaded = NoLoads
    /\ pc' = "q_done"
    /\ UNCHANGED <<textures, indices, tuning, redPass, iter, velStamp, passLog,
                   warm, harness, host, probes>>

RaceNext ==
    \/ \E r \in {0, 1} : RaceDispatch(r)
    \/ \E c \in Cells : RaceLoad(c)
    \/ \E c \in Cells : RaceStore(c)
    \/ RaceBarrier

RaceSpec == RaceInit /\ [][RaceNext]_vars

----------------------------------------------------------------------------
(* The command stream of simulate and addForce: one action per dispatch,      *)
(* barrier and index flip, in program order.  A texture or buffer is named by *)
(* its array and slot; this specification follows which writes have been made *)
(* visible to which kind of access, not the contents.                         *)

\* how a shader reaches memory: image load/store, texture fetch through a
\* sampler, shader storage block
AccessKinds == {"image", "fetch", "storage"}

\* GL_SHADER_IMAGE_ACCESS_BARRIER_BIT, GL_TEXTURE_FETCH_BARRIER_BIT,
\* GL_SHADER_STORAGE_BARRIER_BIT: the kind of later access each bit covers
ImageBit == {"image"}
ImageAndFetchBits == {"image", "fetch"}
StorageBit == {"storage"}

DispatchCmd(name, rd, wr) ==
    [op |-> "dispatch", pass |-> name, reads |-> rd, writes |-> wr, bits |-> {},
     index |-> "none"]
BarrierCmd(b) ==
    [op |-> "barrier", pass |-> "none", reads |-> {}, writes |-> {}, bits |-> b,
     index |-> "none"]
FlipCmd(i) ==
    [op |-> "flip", pass |-> "none", reads |-> {}, writes |-> {}, bits |-> {},
     index |-> i]

\* one iteration of the solver loop
SweepCommands ==
    <<DispatchCmd("red", {<<"pressureTex", "current", "image">>,
                          <<"divergenceTex", "only", "image">>},
                  {<<"pressureTex", "current", "image">>}),
      BarrierCmd(ImageBit),
      DispatchCmd("black", {<<"pressureTex", "current", "image">>,
                            <<"divergenceTex", "only", "image">>},
                  {<<"pressureTex", "current", "image">>}),
      BarrierCmd(ImageBit)>>

RECURSIVE SolverCommands(_)
SolverCommands(n) == IF n = 0 THEN <<>> ELSE SweepCommands \o SolverCommands(n - 1)

\* simulate(dt) with n solver iterations
SimulateCommands(n) ==
    <<DispatchCmd("advect", {<<"velocityTex", "current", "image">>,
                             <<"velocityTex", "current", "fetch">>},
                  {<<"velocityTex", "other", "image">>}),
      BarrierCmd(ImageAndFetchBits),
      FlipCmd("currentVel"),
      DispatchCmd("divergence", {<<"velocityTex", "current", "image">>},
                  {<<"divergenceTex", "only", "image">>}),
      BarrierCmd(ImageBit)>>
    \o SolverCommands(n) \o
    <<DispatchCmd("gradient", {<<"pressureTex", "current", "image">>,
                               <<"velocityTex", "current", "image">>},
                  {<<"velocityTex", "other", "image">>}),
      BarrierCmd(ImageBit),
      FlipCmd("currentVel"),
      DispatchCmd("postdiv", {<<"velocityTex", "current", "image">>},
                  {<<"postDivergenceTex", "only", "image">>}),
      BarrierCmd(ImageBit),
      DispatchCmd("stats", {<<"divergenceTex", "only", "image">>,
                            <<"postDivergenceTex", "only", "image">>},
                  {<<"statsBuffer", "only", "storage">>}),
      BarrierCmd(StorageBit),
      DispatchCmd("density", {<<"velocityTex", "current", "image">>,
                              <<"densityTex", "current", "fetch">>},
                  {<<"densityTex", "other", "image">>}),
      BarrierCmd(ImageAndFetchBits),
      FlipCmd("currentDensity")>>

\* the barrier of addForce with the texture-fetch bit as well
AddForceBarrierWithFetch == BarrierCmd(ImageAndFetchBits)

\* glMemoryBarrier(GL_SHADER_IMAGE_ACCESS_BARRIER_BIT) at the end of addForce
AddForceBarrier == BarrierCmd(ImageBit)

\* addForce: both images bound GL_READ_WRITE and updated in place
AddForceCommands ==
    <<DispatchCmd("force", {<<"velocityTex", "current", "image">>,
                            <<"densityTex", "current", "image">>},
                  {<<"velocityTex", "current", "image">>,
                   <<"densityTex", "current", "image">>}),
      AddForceBarrier>>

CommandsOf(call, n) ==
    IF call = "simulate" THEN SimulateCommands(n)
    ELSE IF call = "addForce" THEN AddForceCommands ELSE <<>>

\* the slot an access refers to when the command is issued
SlotOf(tex, which, cv, cp, cd) ==
    LET cur == IF tex = "velocityTex" THEN cv
               ELSE IF tex = "pressureTex" THEN cp
               ELSE IF tex = "densityTex" THEN cd ELSE 0
    IN  IF which = "other" THEN 1 - cur ELSE cur

BarrierInit ==
    /\ velocityTex = [s \in 0 .. 1 |-> ZeroVel]
    /\ pressureTex = [s \in 0 .. 1 |-> ZeroField]
    /\ divergenceTex = ZeroField
    /\ postDivergenceTex = ZeroField
    /\ densityTex = [s \in 0 .. 1 |-> [kind |-> "clear", vel |-> NoStamp]]
    /\ statsBuffer = [i \in {} |-> 0]
    /\ currentVel = 0
    /\ currentPressure = 0
    /\ currentDensity = 0
    /\ pressureIterations \in 1 .. MaxIter
    /\ pressureOmega = OmegaDen
    /\ redPass = 0
    /\ pc = "idle"
    /\ iter = 0
    /\ velStamp = [s \in 0 .. 1 |-> [kind |-> "clear", age |-> 1]]
    /\ passLog = <<>>
    /\ warm = FALSE
    /\ pending = {}
    /\ pStart = ZeroField
    /\ sweepLog = <<>>
    /\ sample = NoSample
    /\ programs = LoadedPrograms
    /\ report = NoReport
    /\ search = NoSearch
    /\ inject = NoInject
    /\ loaded = NoLoads
    /\ gpu = [call |-> "none", at |-> 0, calls |-> 0, open |-> FALSE,
              stale |-> {}, unfenced |-> {}, hazards |-> {}]
    /\ mousePressed = 0
    /\ lastMouseX = 0
    /\ lastMouseY = 0
    /\ events = NoEvents

Command == CommandsOf(gpu.call, pressureIterations)[gpu.at]

Running == gpu.call # "none" /\ gpu.at <= Len(CommandsOf(gpu.call, pressureIterations))

\* the main loop calls simulate, or the cursor callback calls addForce
IssueCall(call) ==
    /\ gpu.call = "none"
    /\ gpu.calls < MaxCalls
    /\ gpu' = [gpu EXCEPT !.call = call, !.at = 1, !.calls = @ + 1]
    /\ UNCHANGED <<textures, indices, tuning, redPass, pc, iter, velStamp, passLog,
                   warm, harness, host, inject, loaded, input>>

\* glDispatchCompute: the pass starts; an access to memory that holds a write
\* not yet made visible to that kind of access is a hazard, and so is a pass
\* started while the pass before it has no barrier behind it
IssueDispatch ==
    /\ Running
    /\ Command.op = "dispatch"
    /\ LET touched == {<<a[1], SlotOf(a[1], a[2], currentVel, currentPressure,
                                      currentDensity), a[3]>> :
                           a \in Command.reads \cup Command.writes}
           written == {<<a[1], SlotOf(a[1], a[2], currentVel, currentPressure,
                                      currentDensity)>> : a \in Command.writes}
       IN  gpu' = [gpu EXCEPT
               !.at = @ + 1,
               !.open = TRUE,
               !.hazards = @ \cup {<<Command.pass, t>> : t \in touched \cap gpu.stale},
               !.unfenced = IF gpu.open THEN @ \cup {Command.pass} ELSE @,
               !.stale = @ \cup {<<w[1], w[2], k>> : w \in written, k \in AccessKinds}]
    /\ UNCHANGED <<textures, indices, tuning, redPass, pc, iter, velStamp, passLog,
                   warm, harness, host, inject, loaded, input>>

\* glMemoryBarrier(bits): the writes issued before it are visible to the
\* accesses of the kinds named that are issued after it
IssueBarrier ==
    /\ Running
    /\ Command.op = "barrier"
    /\ gpu' = [gpu EXCEPT !.at = @ + 1,
                          !.open = FALSE,
                          !.stale = {e \in @ : e[3] \notin Command.bits}]
    /\ UNCHANGED <<textures, indices, tuning, redPass, pc, iter, velStamp, passLog,
                   warm, harness, host, inject, loaded, input>>

\* currentVel = 1 - currentVel; currentDensity = 1 - currentDensity
IssueFlip ==
    /\ Running
    /\ Command.op = "flip"
    /\ currentVel' = IF Command.index = "currentVel" THEN 1 - currentVel
                     ELSE currentVel
    /\ currentDensity' = IF Command.index = "currentDensity" THEN 1 - currentDensity
                         ELSE currentDensity
    /\ gpu' = [gpu EXCEPT !.at = @ + 1,
                          !.unfenced = IF gpu.open THEN @ \cup {Command.index} ELSE @]
    /\ UNCHANGED <<textures, currentPressure, tuning, redPass, pc, iter, velStamp,
                   passLog, warm, harness, host, inject, loaded, input>>

\* the call returns
IssueReturn ==
    /\ gpu.call # "none"
    /\ ~Running
    /\ gpu' = [gpu EXCEPT !.call = "none", !.at = 0]
    /\ UNCHANGED <<textures, indices, tuning, redPass, pc, iter, velStamp, passLog,
                   warm, harness, host, inject, loaded, input>>

BarrierNext ==
    \/ \E call \in {"simulate", "addForce"} : IssueCall(call)
    \/ IssueDispatch
    \/ IssueBarrier
    \/ IssueFlip
    \/ IssueReturn

BarrierSpec == BarrierInit /\ [][BarrierNext]_vars

----------------------------------------------------------------------------
(* Tally harness: one dispatch of divergence_stats.comp on a cleared buffer,  *)
(* its invocations running concurrently.  An invocation first classifies its  *)
(* cell, and later increments the entry; invocations are launched in row      *)
(* order, at most MaxInFlight of them are between the two steps at a time,    *)
(* and their increments come in any order.                                    *)

TallyInit ==
    /\ velocityTex = [s \in 0 .. 1 |-> ZeroVel]
    /\ pressureTex = [s \in 0 .. 1 |-> ZeroField]
    /\ divergenceTex \in
          {[c \in Cells |-> One], [ZeroField EXCEPT ![CellOrder[2]] = One]}
    /\ postDivergenceTex \in
          {ZeroField, [c \in Cells |-> IF c[1] = 0 THEN 1 ELSE 0]}
    /\ densityTex = [s \in 0 .. 1 |-> [kind |-> "clear", vel |-> NoStamp]]
    /\ statsBuffer = ClearStats2D([i \in {} |-> 0])
    /\ currentVel = 0
    /\ currentPressure = 0
    /\ currentDensity = 0
    /\ pressureIterations = MaxIter
    /\ pressureOmega = OmegaDen
    /\ redPass = 0
    /\ pc = "t_run"
    /\ iter = 0
    /\ velStamp = [s \in 0 .. 1 |-> [kind |-> "clear", age |-> 1]]
    /\ passLog = <<>>
    /\ warm = FALSE
    /\ pending = Cells
    /\ pStart = ZeroField
    /\ sweepLog = <<>>
    /\ sample = NoSample
    /\ programs = LoadedPrograms
    /\ report = NoReport
    /\ search = NoSearch
    /\ inject = NoInject
    /\ loaded = NoLoads
    /\ gpu = NoStream
    /\ mousePressed = 0
    /\ lastMouseX = 0
    /\ lastMouseY = 0
    /\ events = NoEvents

\* the next invocation is launched: it reads its two divergence values and
\* classifies them; the count of its entry at this moment is noted
TallyLoad ==
    /\ pc = "t_run"
    /\ pending # {}
    /\ Cardinality(DOMAIN loaded) < MaxInFlight
    /\ \E c \in {CellOrder[SIM_WIDTH * SIM_HEIGHT - Cardinality(pending) + 1]} :
          /\ loaded' = (c :> HistAt(statsBuffer,
                                    CellIndex(divergenceTex, postDivergenceTex, c)))
                            @@ loaded
          /\ pending' = pending \ {c}
    /\ UNCHANGED <<textures, indices, tuning, redPass, pc, iter, velStamp, passLog,
                   warm, pStart, sweepLog, sample, host, inject, gpu, input>>

\* the invocation of cell c increments its entry and ends; report holds what
\* the increment returned
TallyStore(c) ==
    /\ pc = "t_run"
    /\ c \in DOMAIN loaded
    /\ \E i \in {CellIndex(divergenceTex, postDivergenceTex, c)} :
          /\ statsBuffer' = AtomicAdd(statsBuffer, i, loaded[c])
          /\ report' = [op |-> "atomicAdd", index |-> i, seen |-> loaded[c],
                        out |-> HistAt(statsBuffer, i)]
    /\ loaded' = [b \in DOMAIN loaded \ {c} |-> loaded[b]]
    /\ UNCHANGED <<velocityTex, pressureTex, divergenceTex, postDivergenceTex,
                   densityTex, indices, tuning, redPass, pc, iter, velStamp,
                   passLog, warm, harness, programs, search, inject, gpu, input>>

\* glMemoryBarrier: every invocation of the dispatch has completed
TallyBarrier ==
    /\ pc = "t_run"
    /\ pending = {}
    /\ loaded = NoLoads
    /\ pc' = "t_done"
    /\ UNCHANGED <<textures, indices, tuning, redPass, iter, velStamp, passLog,
                   warm, harness, host, probes>>

TallyNext ==
    \/ TallyLoad
    \/ \E c \in Cells : TallyStore(c)
    \/ TallyBarrier

TallySpec == TallyInit /\ [][TallyNext]_vars

----------------------------------------------------------------------------
(* The main loop: simulate(dt), then glfwPollEvents, which runs the cursor,   *)
(* button and key callbacks of the events that arrived.  The magnitudes of    *)
(* the injected forces play no part here, only which calls are made, in which *)
(* order, and which slots and indices they touch.                             *)

WINDOW_WIDTH == 800
WINDOW_HEIGHT == 800

\* cursor positions in window pixels: the centre of the window and the right
\* end of its middle row
CursorPoints == {<<WINDOW_WIDTH \div 2, WINDOW_HEIGHT \div 2>>,
                 <<WINDOW_WIDTH - 1, WINDOW_HEIGHT \div 2>>}

Buttons == {"left", "right"}
Actions == {"press", "release"}
Keys == {"R", "V"}

\* x = xpos / width; y = 1.0f - ypos / height: the cell the point falls in
CellOf(xpos, ypos) ==
    <<(xpos * SIM_WIDTH) \div WINDOW_WIDTH,
      ((WINDOW_HEIGHT - ypos) * SIM_HEIGHT) \div WINDOW_HEIGHT>>

\* fdx = dx / width; fdy = -dy / height, in units of 1 / DragDen
DragOf(dx, dy) ==
    <<(dx * DragDen) \div WINDOW_WIDTH, ((0 - dy) * DragDen) \div WINDOW_HEIGHT>>

\* a button test that takes every button for the left one
IsLeftAny(button) == TRUE

\* button == GLFW_MOUSE_BUTTON_LEFT
IsLeft(button) == button = "left"

LoopInit ==
    /\ velocityTex = [s \in 0 .. 1 |-> ZeroVel]
    /\ pressureTex = [s \in 0 .. 1 |-> ZeroField]
    /\ divergenceTex = ZeroField
    /\ postDivergenceTex = ZeroField
    /\ densityTex = [s \in 0 .. 1 |-> [kind |-> "clear", vel |-> NoStamp]]
    /\ statsBuffer = [i \in {} |-> 0]
    /\ currentVel = 0
    /\ currentPressure = 0
    /\ currentDensity = 0
    /\ pressureIterations = 1
    /\ pressureOmega = OmegaDen
    /\ redPass = 0
    /\ pc = "idle"
    /\ iter = 0
    /\ velStamp = [s \in 0 .. 1 |-> [kind |-> "clear", age |-> 1]]
    /\ passLog = <<>>
    /\ warm = FALSE
    /\ pending = {}
    /\ pStart = ZeroField
    /\ sweepLog = <<>>
    /\ sample = NoSample
    /\ programs = LoadedPrograms
    /\ report = NoReport
    /\ search = NoSearch
    /\ inject = NoInject
    /\ loaded = NoLoads
    /\ gpu = NoStream
    /\ mousePressed = 0
    /\ lastMouseX = 0
    /\ lastMouseY = 0
    /\ events = NoEvents

\* glfwPollEvents is reached after simulate has returned
Polling == pc = "idle" /\ passLog # <<>>

\* the main loop calls simulate(dt)
LoopFrame ==
    /\ pc = "idle"
    /\ events.frames < MaxFrames
    /\ pc' = PassOrder[1]
    /\ passLog' = <<>>
    /\ velStamp' = [s \in 0 .. 1 |-> [velStamp[s] EXCEPT !.age = 1]]
    /\ events' = [events EXCEPT !.frames = @ + 1]
    /\ UNCHANGED <<textures, indices, tuning, redPass, iter, warm, harness, host,
                   inject, loaded, gpu, mousePressed, lastMouseX, lastMouseY>>

\* 1. Advect velocity, with the kernel applied to the field it reads
LoopAdvect ==
    /\ pc = "advect"
    /\ velocityTex' = [velocityTex EXCEPT
                          ![Other(currentVel)] = Advect(velocityTex[currentVel])]
    /\ velStamp' = [velStamp EXCEPT
                       ![Other(currentVel)] =
                           [kind |-> IF velStamp[currentVel].kind = "force"
                                     THEN "advected force" ELSE "advect",
                            age |-> 0]]
    /\ currentVel' = Flip(currentVel)
    /\ passLog' = Append(passLog, "advect")
    /\ pc' = After("advect")
    /\ UNCHANGED <<pressureTex, divergenceTex, postDivergenceTex, densityTex,
                   statsBuffer, currentPressure, currentDensity, tuning, redPass,
                   iter, warm, harness, host, probes>>

\* cursorPosCallback(window, xpos, ypos); the callback is delivered when the
\* cursor has moved
CursorPosCallback(xpos, ypos) ==
    /\ Polling
    /\ <<xpos, ypos>> # <<lastMouseX, lastMouseY>>
    /\ IF mousePressed # 0
       THEN AddForce(CellOf(xpos, ypos),
                     DragOf(xpos - lastMouseX, ypos - lastMouseY), 1)
       ELSE UNCHANGED <<textures, indices, tuning, redPass, pc, iter, velStamp,
                        passLog, warm, harness, host, inject, loaded, gpu>>
    /\ lastMouseX' = xpos
    /\ lastMouseY' = ypos
    /\ events' = [events EXCEPT !.last = <<"move", xpos, ypos>>,
                                !.cursor = <<xpos, ypos>>]
    /\ UNCHANGED mousePressed

\* mouseButtonCallback(window, button, action, mods)
MouseButtonCallback(button, action) ==
    /\ Polling
    /\ mousePressed' = IF IsLeft(button)
                       THEN (IF action = "press" THEN 1 ELSE 0)
                       ELSE mousePressed
    /\ events' = [events EXCEPT
                     !.left = IF button = "left" THEN action ELSE @,
                     !.last = <<"button", button, action>>]
    /\ UNCHANGED <<textures, indices, tuning, redPass, pc, iter, velStamp,
                   passLog, warm, harness, host, inject, loaded, gpu,
                   lastMouseX, lastMouseY>>

\* keyCallback(window, key, scancode, GLFW_PRESS, mods): R clears the two
\* velocity, the two density and the two pressure textures; V changes what
\* is drawn
KeyCallback(key) ==
    /\ Polling
    /\ IF key = "R"
       THEN /\ velocityTex' = [s \in 0 .. 1 |-> ClearTextureRG(velocityTex[s])]
            /\ densityTex' = [s \in 0 .. 1 |-> [kind |-> "clear", vel |-> NoStamp]]
            /\ pressureTex' = [s \in 0 .. 1 |-> ClearTextureR(pressureTex[s])]
            /\ velStamp' = [s \in 0 .. 1 |-> [kind |-> "clear", age |-> 1]]
       ELSE UNCHANGED <<velocityTex, densityTex, pressureTex, velStamp>>
    /\ events' = [events EXCEPT !.last = <<"key", key>>]
    /\ UNCHANGED <<divergenceTex, postDivergenceTex, statsBuffer, indices, tuning,
                   redPass, pc, iter, passLog, warm, harness, host, inject,
                   loaded, gpu, mousePressed, lastMouseX, lastMouseY>>

LoopNext ==
    \/ LoopFrame
    \/ LoopAdvect
    \/ LaterPass
    \/ \E pt \in CursorPoints : CursorPosCallback(pt[1], pt[2])
    \/ \E button \in Buttons, action \in Actions : MouseButtonCallback(button, action)
    \/ \E key \in Keys : KeyCallback(key)

LoopSpec == LoopInit /\ [][LoopNext]_vars

----------------------------------------------------------------------------
(* Stencil comparison (README, Consistent Operators): the gradient and the    *)
(* divergence taken with central differences, against the forward/backward    *)
(* pair of the kernels, on one pressure field.  The grid is StencilN cells    *)
(* wide, so that a cell can have neighbours at distance 2; values are held in *)
(* units of 1 / StencilUnit, which the two halvings of the central            *)
(* differences divide exactly.                                                *)

StencilUnit == 4

StencilCells == (0 .. StencilN - 1) \X (0 .. StencilN - 1)

\* a value outside the domain reads as 0
At(f, x, y) == IF <<x, y>> \in DOMAIN f THEN f[<<x, y>>] ELSE 0

\* a one-sided difference in place of the central one
OneSided(f, x, y, dx, dy) == At(f, x, y) - At(f, x - dx, y - dy)

\* central difference: (f[i+1] - f[i-1]) / 2
Central(f, x, y, dx, dy) == (At(f, x + dx, y + dy) - At(f, x - dx, y - dy)) \div 2

\* backward difference: f[i] - f[i-1]
Backward(f, x, y, dx, dy) == At(f, x, y) - At(f, x - dx, y - dy)

\* forward difference: f[i+1] - f[i]
Forward(f, x, y, dx, dy) == At(f, x + dx, y + dy) - At(f, x, y)

GradientKinds == {"central", "backward"}
DivergenceKinds == {"central", "forward"}

StencilGradientOf(kind, p) ==
    [x |-> [c \in StencilCells |->
                IF kind = "central" THEN Central(p, c[1], c[2], 1, 0)
                ELSE Backward(p, c[1], c[2], 1, 0)],
     y |-> [c \in StencilCells |->
                IF kind = "central" THEN Central(p, c[1], c[2], 0, 1)
                ELSE Backward(p, c[1], c[2], 0, 1)]]

StencilDivergenceOf(kind, g) ==
    [c \in StencilCells |->
        IF kind = "central"
        THEN Central(g.x, c[1], c[2], 1, 0) + Central(g.y, c[1], c[2], 0, 1)
        ELSE Forward(g.x, c[1], c[2], 1, 0) + Forward(g.y, c[1], c[2], 0, 1)]

\* the checkerboard: +1 on the cells with i + j even, -1 on the others, or
\* the reverse
Checkerboard(sign) ==
    [c \in StencilCells |->
        IF (c[1] + c[2]) % 2 = 0 THEN sign * StencilUnit ELSE 0 - sign * StencilUnit]

\* the field that is 1 in one cell and 0 elsewhere
UnitAt(d) == [c \in StencilCells |-> IF c = d THEN StencilUnit ELSE 0]

StencilFields ==
    {Checkerboard(1), Checkerboard(0 - 1)} \cup {UnitAt(d) : d \in StencilCells}

StencilInit ==
    /\ velocityTex = [s \in 0 .. 1 |-> ZeroVel]
    /\ pressureTex = [s \in 0 .. 1 |-> ZeroField]
    /\ divergenceTex = ZeroField
    /\ postDivergenceTex = ZeroField
    /\ densityTex = [s \in 0 .. 1 |-> [kind |-> "clear", vel |-> NoStamp]]
    /\ statsBuffer = [i \in {} |-> 0]
    /\ currentVel = 0
    /\ currentPressure = 0
    /\ currentDensity = 0
    /\ pressureIterations = 1
    /\ pressureOmega = OmegaDen
    /\ redPass = 0
    /\ pc = "w_field"
    /\ iter = 0
    /\ velStamp = [s \in 0 .. 1 |-> [kind |-> "clear", age |-> 1]]
    /\ passLog = <<>>
    /\ warm = FALSE
    /\ pending = {}
    /\ pStart \in StencilFields
    /\ sweepLog = <<>>
    /\ sample = NoSample
    /\ programs = LoadedPrograms
    /\ report = NoReport
    /\ search = NoSearch
    /\ inject = NoInject
    /\ loaded = NoLoads
    /\ gpu = NoStream
    /\ mousePressed = 0
    /\ lastMouseX = 0
    /\ lastMouseY = 0
    /\ events = NoEvents

\* the gradient of the field, with one of the two differences
StencilGradient(kind) ==
    /\ pc = "w_field"
    /\ report' = [op |-> "gradient", gradient |-> kind,
                  out |-> StencilGradientOf(kind, pStart)]
    /\ pc' = "w_gradient"
    /\ UNCHANGED <<textures, indices, tuning, redPass, iter, velStamp, passLog,
                   warm, harness, programs, search, probes>>

\* the divergence of that gradient, with one of the two differences
StencilDivergence(kind) ==
    /\ pc = "w_gradient"
    /\ report' = [op |-> "laplacian", gradient |-> report.gradient,
                  divergence |-> kind,
                  grad |-> report.out,
                  out |-> StencilDivergenceOf(kind, report.out)]
    /\ pc' = "w_done"
    /\ UNCHANGED <<textures, indices, tuning, redPass, iter, velStamp, passLog,
                   warm, harness, programs, search, probes>>

StencilNext ==
    \/ \E kind \in GradientKinds : StencilGradient(kind)
    \/ \E kind \in DivergenceKinds : StencilDivergence(kind)

StencilSpec == StencilInit /\ [][StencilNext]_vars

----------------------------------------------------------------------------
(* Properties *)

Issued(name) == \E k \in 1 .. Len(passLog) : passLog[k] = name

IsSweep(e) == e \in {"red", "black"}
Sweeps == SelectSeq(passLog, IsSweep)

IsRed(c) == (c[1] + c[2]) % 2 = 0
HasColour(c, r) == IsRed(c) <=> (r = 1)

\* the value of p at (x, y), 0 outside the N x N domain
Outside0(p, x, y) ==
    IF x >= 0 /\ x < N /\ y >= 0 /\ y < N THEN p[<<x, y>>] ELSE 0

NeighbourSum(p, c) ==
      Outside0(p, c[1] - 1, c[2]) + Outside0(p, c[1] + 1, c[2])
    + Outside0(p, c[1], c[2] - 1) + Outside0(p, c[1], c[2] + 1)

Laplacian5(p) == [c \in Cells |-> NeighbourSum(p, c) - 4 * p[c]]

OnEdge(c) == c[1] = 0 \/ c[1] = N - 1 \/ c[2] = 0 \/ c[2] = N - 1

Shifted(p) == [c \in Cells |-> p[c] + One]

SolvedPressure == pressureTex[currentPressure]

\* C1: operator consistency.  For the pressure field in the solver's buffer,
\* the forward-difference divergence of its backward-difference gradient is,
\* in every cell of the grid, the 5-point Laplacian with out-of-domain
\* neighbours counted as 0.
C1_OperatorConsistency ==
    Divergence(Gradient(SolvedPressure)) = Laplacian5(SolvedPressure)

\* C2: residual identity.  Once the post-projection divergence of a step has
\* been computed, it equals in every cell the pre-projection divergence minus
\* the 5-point Laplacian of the solved pressure.
C2_ResidualIdentity ==
    Issued("postdiv") =>
        \A c \in Cells :
            postDivergenceTex[c] = divergenceTex[c] - Laplacian5(SolvedPressure)[c]

\* the states of the pressure solve
Unsolved == pc = "clear"
Solved == Issued("clear") /\ pc \notin {"red", "black"}

C3_SweepSequence ==
    /\ \A k \in 1 .. Len(Sweeps) : Sweeps[k] = IF k % 2 = 1 THEN "red" ELSE "black"
    /\ Len(Sweeps) <= 2 * pressureIterations
    /\ pc \in {"red", "black"} => Issued("clear") /\ Len(Sweeps) < 2 * pressureIterations
    /\ pc = "red" => Len(Sweeps) = 2 * iter
    /\ pc = "black" => Len(Sweeps) = 2 * iter + 1
    /\ Solved => Len(Sweeps) = 2 * pressureIterations
    /\ ~Issued("clear") => Len(Sweeps) = 0

\* C3: the pressure solve is UNSOLVED, then exactly pressureIterations
\* iterations of one Red half-sweep followed by one Black half-sweep, then
\* SOLVED: the half-sweeps alternate starting with Red, there are never more
\* than 2 * pressureIterations of them, the solve is left with exactly that
\* many, and a solve that has started always ends.
C3_PressureSolve == [](C3_SweepSequence) /\ (Unsolved ~> Solved)

C3_Witness ==
    /\ pc = "gradient"
    /\ pressureIterations >= 2
    /\ Len(Sweeps) = 2 * pressureIterations
    /\ SolvedPressure # ZeroField

\* C4: a half-sweep of colour redPass changes every cell of that colour to
\* p_old + omega * (p_GS - p_old), with p_GS = (pL + pR + pB + pT - div) / 4
\* taken on the pressure held when the half-sweep started and neighbours
\* outside the domain counted as 0; a cell of that colour whose invocation
\* has not run yet still holds its old value.
C4_HalfSweepUpdate ==
    sweepLog # <<>> =>
        \A c \in Cells :
            HasColour(c, redPass) =>
                IF c \in pending
                THEN SolvedPressure[c] = pStart[c]
                ELSE 4 * OmegaDen * (SolvedPressure[c] - pStart[c])
                       = pressureOmega
                           * (NeighbourSum(pStart, c) - divergenceTex[c] - 4 * pStart[c])

C4_Witness ==
    /\ pc = "k_idle"
    /\ Len(sweepLog) >= 2
    /\ sweepLog[Len(sweepLog)] = 0
    /\ pressureOmega # OmegaDen
    /\ \E c \in Cells : ~IsRed(c) /\ OnEdge(c) /\ SolvedPressure[c] # pStart[c]

\* C5: colour independence.  From the zeroed pressure buffer, after Red
\* half-sweeps only every black cell still holds 0, after Black half-sweeps
\* only every red cell still holds 0, and during and after any half-sweep the
\* cells of the other colour hold what they held when it started.
C5_ColourIndependence ==
    /\ (\A k \in 1 .. Len(sweepLog) : sweepLog[k] = 1) =>
           \A c \in Cells : ~IsRed(c) => SolvedPressure[c] = 0
    /\ (\A k \in 1 .. Len(sweepLog) : sweepLog[k] = 0) =>
           \A c \in Cells : IsRed(c) => SolvedPressure[c] = 0
    /\ sweepLog # <<>> =>
           \A c \in Cells : ~HasColour(c, redPass) => SolvedPressure[c] = pStart[c]

C5_Witness ==
    /\ pc = "k_idle"
    /\ Len(sweepLog) >= 2
    /\ \A k \in 1 .. Len(sweepLog) : sweepLog[k] = 1
    /\ \E c \in Cells : IsRed(c) /\ SolvedPressure[c] # 0

\* C6: when the first Red half-sweep of a step starts, the pressure buffer the
\* solver reads and writes is zero in every cell, whatever the previous step
\* left in it.
C6_ZeroStart ==
    (pc = "red" /\ iter = 0) => SolvedPressure = ZeroField

C6_Witness == pc = "red" /\ iter = 0 /\ warm

\* C7: the sweep is not invariant under a constant shift.  Before every
\* half-sweep of the solve, running that half-sweep on the pressure shifted by
\* +1 does not give the unshifted result shifted by +1: every cell of the
\* swept colour whose stencil reaches outside the domain differs; the same
\* holds for a whole Red-Black iteration.
C7_NotShiftInvariant ==
    pc \in {"red", "black"} =>
        LET r == IF pc = "red" THEN 1 ELSE 0
            p == SolvedPressure
            q == HalfSweep(p, divergenceTex, pressureOmega, r)
            qs == HalfSweep(Shifted(p), divergenceTex, pressureOmega, r)
            full(f) == HalfSweep(HalfSweep(f, divergenceTex, pressureOmega, 1),
                                 divergenceTex, pressureOmega, 0)
        IN  /\ qs # Shifted(q)
            /\ \A c \in Cells : HasColour(c, r) /\ OnEdge(c) => qs[c] # q[c] + One
            /\ pc = "red" => full(Shifted(p)) # Shifted(full(p))

C7_Witness == pc = "black" /\ iter >= 1 /\ SolvedPressure # ZeroField

\* C8 as stated: density advection is issued before velocity self-advection,
\* and the velocity it reads was written by an earlier step, never by the
\* projection of the same step.
C8_DensityBeforeVelocity ==
    /\ Issued("advect") => Issued("density")
    /\ \A s \in 0 .. 1 : densityTex[s].kind = "advect" => densityTex[s].vel.age = 1

\* C8, amended: density advection is the last pass of a step, issued after
\* velocity self-advection and after the projection, and the velocity it reads
\* is the one the projection of the same step wrote.
C8_DensityAfterProjection ==
    /\ Issued("density") =>
           /\ passLog[Len(passLog)] = "density"
           /\ Issued("advect") /\ Issued("gradient")
           /\ pc = "idle"
    /\ \A s \in 0 .. 1 :
           densityTex[s].kind = "advect" =>
               densityTex[s].vel = [kind |-> "project", age |-> 0]

C8_Witness ==
    /\ pc = "idle"
    /\ densityTex[0].kind = "advect"
    /\ densityTex[1].kind = "advect"

\* C9: histogram conservation.  Once the histogram pass of a step has run, the
\* counts of the joint histogram sum to N x N and lie inside the table,
\* whatever the buffer held before.
C9_HistogramConservation ==
    Issued("stats") =>
        /\ HistTotal(statsBuffer) = N * N
        /\ DOMAIN statsBuffer \subseteq 0 .. NumBins * NumBins - 1

C9_Witness ==
    /\ pc = "idle"
    /\ Issued("stats")
    /\ densityTex[0].kind = "advect"
    /\ densityTex[1].kind = "advect"
    /\ Cardinality(DOMAIN statsBuffer) > 1

\* the magnitude m * 2^e is at least 2^k
AtLeastPow2(m, e, k) ==
    IF m = 0 THEN FALSE
    ELSE IF k - e <= 0 THEN TRUE
    ELSE IF k - e > 30 THEN FALSE
    ELSE m >= 2 ^ (k - e)

\* b is the bin of m * 2^e: inside 0..31, bin 0 below 2^(1-24) (zero
\* included), bin 31 from 2^(31-24) on, floor(log2) + 24 in between
RightBin(b, m, e) ==
    /\ b \in 0 .. NumBins - 1
    /\ b > 0 => AtLeastPow2(m, e, b - BinOffset)
    /\ b < NumBins - 1 => ~AtLeastPow2(m, e, b + 1 - BinOffset)

C11_FaceReadsInside ==
    Issued("divergence") =>
        \A c \in Cells : FaceReads(c) \subseteq VelocityTexels

\* C12: configuration errors are fatal at startup.  If a program could not be
\* opened, failed to compile or failed to link, main never gets past the
\* handle test: the loop is not entered and simulate is not called.
C12_StartupErrorsFatal ==
    Faulted(programs) # {} => pc \in {"load", "exit"}

\* the bins of one axis that hold a count, and their marginal sums
NonEmptyRows(h) == {i \div NumBins : i \in {j \in DOMAIN h : h[j] > 0}}
NonEmptyCols(h) == {i % NumBins : i \in {j \in DOMAIN h : h[j] > 0}}
RowSum(h, post) == HistTotal([i \in {j \in DOMAIN h : j \div NumBins = post} |-> h[i]])
ColSum(h, pre) == HistTotal([i \in {j \in DOMAIN h : j % NumBins = pre} |-> h[i]])

Highest(S) == CHOOSE a \in S : \A b \in S : a >= b

\* the elements of a set of bins, highest first / lowest first
RECURSIVE Descending(_)
Descending(S) ==
    IF S = {} THEN <<>> ELSE <<Highest(S)>> \o Descending(S \ {Highest(S)})

RECURSIVE Reverse(_)
Reverse(q) == IF q = <<>> THEN <<>> ELSE Append(Reverse(Tail(q)), Head(q))

Ascending(S) == Reverse(Descending(S))

Min2(a, b) == IF a < b THEN a ELSE b

\* C14: worst-bin score.  For a histogram with at least one count,
\* evaluateConvergence returns the highest post-bin whose row total is
\* non-zero, with exactly that row total; for an all-zero histogram it
\* returns bin 0 with count 0.
C14_WorstBinScore ==
    report.op = "evaluate" =>
        IF NonEmptyRows(statsBuffer) = {}
        THEN report.out = [worstBin |-> 0, worstCount |-> 0]
        ELSE /\ report.out.worstBin = Highest(NonEmptyRows(statsBuffer))
             /\ report.out.worstCount = RowSum(statsBuffer, report.out.worstBin)

C14_Witness ==
    /\ report.op = "evaluate"
    /\ Cardinality(NonEmptyRows(statsBuffer)) >= 2
    /\ report.out.worstCount >= 2
    /\ Cardinality(DOMAIN statsBuffer) >= 3

\* what the top-3 summary of one axis has to show: the highest min(3, n)
\* non-empty bins, highest first, as (bin - 24, marginal sum)
TopThree(bins, h, Sum(_, _)) ==
    LET d == Descending(bins)
    IN  [k \in 1 .. Min2(3, Len(d)) |-> [bin |-> d[k] - BinOffset, cells |-> Sum(h, d[k])]]

\* C15: top-3 summary.  For any histogram, getTopBins reports for the pre and
\* for the post axis the min(3, number of non-empty bins) highest non-empty
\* bins in descending order, each as (bin - 24) with its marginal sum; these
\* are the lines the overlay shows, and the slots beyond them are unused.
C15_TopThree ==
    report.op = "top" =>
        /\ Overlay(report.out.pre)
              = TopThree(NonEmptyCols(statsBuffer), statsBuffer, ColSum)
        /\ Overlay(report.out.post)
              = TopThree(NonEmptyRows(statsBuffer), statsBuffer, RowSum)
        /\ \A k \in 1 .. 3 :
              /\ k > Cardinality(NonEmptyCols(statsBuffer))
                     => report.out.pre.bins[k] = Unused
              /\ k > Cardinality(NonEmptyRows(statsBuffer))
                     => report.out.post.bins[k] = Unused

\* C16 as stated: the table shows exactly the non-empty columns and exactly
\* the non-empty rows, and nothing for an all-zero histogram.
C16_NoEmptyRowOrColumn ==
    report.op = "print" =>
        /\ report.out.cols = Ascending(NonEmptyCols(statsBuffer))
        /\ report.out.rows = Ascending(NonEmptyRows(statsBuffer))

\* C16, amended: the table shows every column from the lowest to the highest
\* non-empty pre-bin, so no all-empty column before the first or after the
\* last non-empty one, and exactly the non-empty rows; for an all-zero
\* histogram nothing is printed.
C16_TrimmedTable ==
    report.op = "print" =>
        LET cols == NonEmptyCols(statsBuffer)
        IN  /\ report.out.rows = Ascending(NonEmptyRows(statsBuffer))
            /\ cols = {} => report.out.cols = <<>>
            /\ cols # {} =>
                   /\ report.out.cols # <<>>
                   /\ report.out.cols[1] \in cols
                   /\ report.out.cols[Len(report.out.cols)] \in cols
                   /\ \A k \in 1 .. Len(report.out.cols) - 1 :
                          report.out.cols[k + 1] = report.out.cols[k] + 1
                   /\ \A c \in cols :
                          \E k \in 1 .. Len(report.out.cols) : report.out.cols[k] = c

C16_Witness ==
    /\ report.op = "print"
    /\ Len(report.out.rows) >= 2
    /\ Len(report.out.cols) > Cardinality(NonEmptyCols(statsBuffer))
    /\ Cardinality(NonEmptyCols(statsBuffer)) >= 2


\* the score of the k-th candidate tested, and the lexicographic order on scores
ScoreLess(a, b) ==
    \/ a.worstBin < b.worstBin
    \/ a.worstBin = b.worstBin /\ a.worstCount < b.worstCount

\* C13: omega selection.  At every point of runOmegaSearch, once a candidate
\* has been tested, the best omega, worst bin and count held are those of the
\* first candidate tested whose (worst post-bin, count in that bin) is
\* lexicographically smallest among the candidates tested so far.
C13_OmegaSelection ==
    search.state \in {"run", "done"} /\ search.tested # <<>> =>
        \E k \in 1 .. Len(search.tested) :
            /\ \A j \in 1 .. Len(search.tested) :
                    ~ScoreLess(search.tested[j], search.tested[k])
            /\ \A j \in 1 .. k - 1 : ScoreLess(search.tested[k], search.tested[j])
            /\ search.bestAt = k
            /\ search.bestOmega = search.tested[k].omega
            /\ search.bestWorstBin = search.tested[k].worstBin
            /\ search.bestWorstCount = search.tested[k].worstCount

\* a finished search in which the candidate selected is followed by one with
\* the same worst bin and no smaller a count
C13_Witness ==
    /\ search.state = "done"
    /\ \E j, k \in 1 .. Len(search.tested) :
           /\ j < k
           /\ search.bestAt = j
           /\ search.tested[j].worstBin = search.tested[k].worstBin
           /\ search.tested[j].worstCount <= search.tested[k].worstCount

AtCeiling ==
    [x |-> inject.dir[1] * (MaxSpeed \div DirLen),
     y |-> inject.dir[2] * (MaxSpeed \div DirLen)]

InjectedDelta(c) ==
    [x |-> velocityTex[currentVel][c].x - inject.before[c].x,
     y |-> velocityTex[currentVel][c].y - inject.before[c].y]

Stored == {c \in Cells : Active(c, redPass) /\ c \notin pending
                             /\ c \notin DOMAIN loaded}

\* C19: half-sweep order independence.  At every point of a half-sweep whose
\* invocations load and store in any interleaving, a value computed or stored
\* for a cell is the one the half-sweep run cell by cell in row order gives
\* it, and every other cell holds its value from the start of the half-sweep;
\* so at the barrier the image is that of the sequential half-sweep.
C19_OrderIndependence ==
    pc \in {"q_run", "q_done"} =>
        \A seq \in {HalfSweep(pStart, divergenceTex, pressureOmega, redPass)} :
            /\ \A c \in DOMAIN loaded : loaded[c] = seq[c]
            /\ \A c \in Stored : pressureTex[currentPressure][c] = seq[c]
            /\ \A c \in Cells \ Stored :
                   pressureTex[currentPressure][c] = pStart[c]
            /\ pc = "q_done" => pressureTex[currentPressure] = seq

\* a half-sweep in flight: one invocation has stored a new value, a neighbour
\* of a neighbour has computed its value and not stored it, a third has not
\* started
C19_Witness ==
    /\ pc = "q_run"
    /\ pending # {}
    /\ \E a \in Stored, b \in DOMAIN loaded :
           /\ pressureTex[currentPressure][a] # pStart[a]
           /\ Abs(a[1] - b[1]) + Abs(a[2] - b[2]) = 2


\* no pass was started and no index flipped while the pass before it had no
\* barrier behind it
EveryDispatchFenced == gpu.unfenced = {}

\* no pass touched memory holding a write of an earlier pass that no barrier
\* had made visible to that kind of access
NoStaleAccess == gpu.hazards = {}

\* C20: barriers between passes.  In every command stream of simulate and
\* addForce calls, each dispatch is followed by a barrier before the next
\* dispatch or index flip, and no pass reads or writes a texture or buffer
\* while a write of an earlier pass to it is not yet visible to that access.
C20_BarriersBetweenPasses ==
    gpu # NoStream => EveryDispatchFenced /\ NoStaleAccess


\* the cells whose invocation has incremented its entry
Tallied == (Cells \ pending) \ DOMAIN loaded

CurrentHoldsLatest ==
    /\ currentVel \in 0 .. 1 /\ currentDensity \in 0 .. 1
    /\ Issued("advect") /\ ~Issued("gradient") =>
           velStamp[currentVel] = [kind |-> "advect", age |-> 0]
    /\ Issued("gradient") =>
           /\ velStamp[currentVel] = [kind |-> "project", age |-> 0]
           /\ velStamp[1 - currentVel] = [kind |-> "advect", age |-> 0]
    /\ Issued("density") =>
           densityTex[currentDensity]
               = [kind |-> "advect", vel |-> [kind |-> "project", age |-> 0]]

\* a pass over a double-buffered field leaves the current slot, which it
\* reads, as it was, and flips the index to the slot it has written
DoubleBufferStep ==
    /\ pc \in {"advect", "gradient"} \/ velocityTex' # velocityTex
           \/ currentVel' # currentVel =>
           /\ pc \in {"advect", "gradient"}
           /\ currentVel' = 1 - currentVel
           /\ velocityTex'[currentVel] = velocityTex[currentVel]
           /\ velStamp'[currentVel] = velStamp[currentVel]
    /\ pc = "gradient" =>
           velocityTex'[currentVel']
               = GradientSubtract(pressureTex[currentPressure], velocityTex[currentVel])
    /\ pc = "density" \/ densityTex' # densityTex \/ currentDensity' # currentDensity =>
           /\ pc = "density"
           /\ currentDensity' = 1 - currentDensity
           /\ densityTex'[currentDensity] = densityTex[currentDensity]
           /\ densityTex'[currentDensity'].vel = velStamp[currentVel]

\* C22: double-buffer discipline.  Every pass of simulate over the velocity
\* or the density (self-advection, gradient subtraction, density advection)
\* reads the current slot, writes the other slot and then flips the index to
\* it, and no other pass of simulate writes these fields or moves these
\* indices; so the current slot always holds the output of the last such pass
\* completed.
C22_DoubleBuffer == [](CurrentHoldsLatest) /\ [][DoubleBufferStep]_vars

\* a second step has completed: both slots of both fields have been written,
\* and the two velocity slots differ
C22_Witness ==
    /\ pc = "idle"
    /\ Issued("density")
    /\ densityTex[0].kind = "advect" /\ densityTex[1].kind = "advect"
    /\ velocityTex[currentVel] # velocityTex[1 - currentVel]
    /\ velStamp[currentVel].kind = "project"


\* a half-sweep that reads one pressure slot, leaves it as it was, and hands
\* the current role to the other slot
PingPongStep ==
    pc \in {"red", "black"} =>
        /\ pressureTex'[currentPressure] = pressureTex[currentPressure]
        /\ currentPressure' = 1 - currentPressure

\* C23: pressure ping-pong.  Every half-sweep of the pressure solve leaves the
\* pressure slot it reads as it was, writes the other slot, and the roles of
\* the two slots swap for the next half-sweep.
C23_PressurePingPong == [][PingPongStep]_vars

\* a half-sweep that replaces the current pressure slot by the half-sweep of
\* that same slot
InPlaceStep ==
    pc \in {"red", "black"} =>
        /\ currentPressure' = currentPressure
        /\ pressureTex'[1 - currentPressure] = pressureTex[1 - currentPressure]
        /\ pressureTex'[currentPressure]
               = HalfSweep(pressureTex[currentPressure], divergenceTex,
                           pressureOmega, IF pc = "red" THEN 1 ELSE 0)

\* C23, amended: the pressure field is single-buffered during the solve.
\* Every half-sweep replaces pressureTex[currentPressure] by the half-sweep of
\* that same slot, leaves the other slot untouched and does not move
\* currentPressure.
C23_PressureInPlace == [][InPlaceStep]_vars

\* a solve has ended with a non-zero pressure in the current slot while the
\* other slot still holds the zeros it was created with
C23_Witness ==
    /\ pc = "gradient"
    /\ Len(Sweeps) >= 2
    /\ pressureTex[currentPressure] # ZeroField
    /\ pressureTex[1 - currentPressure] = ZeroField


\* a force injected after self-advection and before the divergence pass, and
\* a self-advection pass that never reads a field holding an impulse injected
\* since the last projection
ForceStagedStep ==
    /\ inject' # inject => Issued("advect") /\ pc = "divergence"
    /\ pc = "advect" => velStamp[currentVel].kind # "force"

\* C24: force staging.  A force is injected inside the step, after velocity
\* self-advection and before the pre-projection divergence, so the impulse is
\* not advected in the step in which it is applied.
C24_ForceStaging == [][ForceStagedStep]_vars


\* the score of one impulse step that starts from cleared textures: a function
\* of the candidate's omega and the iteration budget alone
ImpulseScore(omega, n) ==
    CHOOSE r \in {EvaluateConvergence(ComputeStats2D([i \in {} |-> 0], div, post)) :
                     <<div, post>> \in
                         {<<Divergence(adv),
                            Divergence(GradientSubtract(
                                SolveFrom(ZeroField, Divergence(adv), omega, 0, n),
                                adv))>> : adv \in {Advect(SetupImpulseTest)}}} : TRUE

\* C25: omega search isolation.  Every candidate is tested on freshly cleared
\* buffers and zeroed indices, with the same unit impulse and one step of the
\* unchanged iteration budget, so the (worst bin, count) recorded for it is the
\* score of its omega and the budget alone, whatever the textures held when the
\* search was called and whichever candidates were tested before.
C25_SearchIsolation ==
    search.state # "none" =>
        /\ \A k \in 1 .. Len(search.tested) :
              \E r \in {ImpulseScore(search.tested[k].omega, pressureIterations)} :
                  /\ search.tested[k].worstBin = r.worstBin
                  /\ search.tested[k].worstCount = r.worstCount
        /\ search.i > 0 =>
              /\ currentVel = 0 /\ currentPressure = 0 /\ currentDensity = 1
              /\ passLog = StepLog(pressureIterations)
              /\ velocityTex[1] = Advect(SetupImpulseTest)
              /\ pressureTex[1] = ZeroField

\* the search was called on used textures and has tested two candidates of
\* different omega, with different scores
C25_Witness ==
    /\ search.state # "none"
    /\ search.left = "used"
    /\ Len(search.tested) >= 2
    /\ search.tested[1].omega # search.tested[2].omega
    /\ <<search.tested[1].worstBin, search.tested[1].worstCount>>
           # <<search.tested[2].worstBin, search.tested[2].worstCount>>


\* the cells whose four immediate neighbours are in the grid
Interior1 == {c \in StencilCells : c[1] \in 1 .. StencilN - 2 /\ c[2] \in 1 .. StencilN - 2}

\* the cells whose four neighbours at distance 2 are in the grid
Interior2 == {c \in StencilCells : c[1] \in 2 .. StencilN - 3 /\ c[2] \in 2 .. StencilN - 3}

\* the cells at distance 2 of c along an axis
Distance2(c) ==
    {<<c[1] + 2, c[2]>>, <<c[1] - 2, c[2]>>, <<c[1], c[2] + 2>>, <<c[1], c[2] - 2>>}

IsCheckerboard(p) == p \in {Checkerboard(1), Checkerboard(0 - 1)}

PreDivergenceKept ==
    /\ pc \in {"clear", "red", "black", "gradient"} =>
          divergenceTex = Divergence(velocityTex[currentVel])
    /\ pc \in {"postdiv", "stats", "density"} =>
          divergenceTex = Divergence(velocityTex[1 - currentVel])
    /\ pc \in {"stats", "density"} =>
          postDivergenceTex = Divergence(velocityTex[currentVel])
    /\ pc = "density" =>
          statsBuffer = ComputeStats2D([i \in {} |-> 0], divergenceTex, postDivergenceTex)

\* only the divergence pass writes divergenceTex
PreDivergenceStep == pc # "divergence" => divergenceTex' = divergenceTex

\* C27: pre-divergence preserved until histogrammed.  After the divergence
\* pass no later pass of the step writes divergenceTex; the post-projection
\* divergence goes to postDivergenceTex, and the histogram pass reads the
\* pre-projection divergence from divergenceTex as the divergence pass left it.
C27_PreDivergencePreserved == [](PreDivergenceKept) /\ [][PreDivergenceStep]_vars

\* the histogram pass is about to run on a pre-projection divergence that
\* differs from the post-projection divergence of the same step
C27_Witness ==
    /\ pc = "stats"
    /\ divergenceTex # ZeroField
    /\ postDivergenceTex # divergenceTex
    /\ divergenceTex = Divergence(velocityTex[1 - currentVel])


Count(log, name) == Len(SelectSeq(log, LAMBDA e : e = name))

\* the indices are 0 or 1; currentVel has been flipped once by each advect and
\* gradient pass of the call, currentDensity once by each call completed, and
\* a finished call has issued each of these passes exactly once
IndexBookkeeping ==
    /\ currentVel \in 0 .. 1 /\ currentPressure \in 0 .. 1 /\ currentDensity \in 0 .. 1
    /\ currentVel = (Count(passLog, "advect") + Count(passLog, "gradient")) % 2
    /\ currentDensity = IF pc = "idle" THEN events.frames % 2
                        ELSE (events.frames + 1) % 2
    /\ currentPressure = 0
    /\ (pc = "idle" /\ passLog # <<>>) =>
          /\ Count(passLog, "advect") = 1
          /\ Count(passLog, "gradient") = 1
          /\ Count(passLog, "density") = 1

\* an index moves only in the pass that flips it, and then to the other slot;
\* the steps taken between two calls of simulate, addForce and the reset key
\* among them, move none
IndexStep ==
    /\ currentVel' = IF pc \in {"advect", "gradient"} THEN 1 - currentVel ELSE currentVel
    /\ currentDensity' = IF pc = "density" THEN 1 - currentDensity ELSE currentDensity
    /\ currentPressure' = currentPressure

\* C28: current-index bookkeeping.  Each index is 0 or 1; one call of simulate
\* flips currentVel exactly twice, currentDensity exactly once and never
\* changes currentPressure; addForce and the reset key change none of them.
C28_IndexBookkeeping == [](IndexBookkeeping) /\ [][IndexStep]_vars

\* after a call of simulate, a force has been injected and the reset key
\* pressed, and the indices are where simulate left them
C28_Witness ==
    /\ pc = "idle"
    /\ events.frames >= 1
    /\ inject.calls >= 1
    /\ events.last = <<"key", "R">>
    /\ currentVel = 0 /\ currentDensity = 1


\* the step delivers a cursor move
MoveStep == events'.last # events.last /\ events'.last[1] = "move"

\* the step delivers a button event
ButtonStep == events'.last # events.last /\ events'.last[1] = "button"

\* what the callbacks do with one event, told from the events delivered:
\* events.left is the action of the most recent left-button event
PointerStep ==
    /\ MoveStep =>
          /\ (inject'.calls = inject.calls + 1) <=> (events.left = "press")
          /\ (events.left = "press" /\ events.cursor # <<>>) =>
                /\ inject'.point = CellOf(events'.last[2], events'.last[3])
                /\ inject'.dir = DragOf(events'.last[2] - events.cursor[1],
                                        events'.last[3] - events.cursor[2])
          /\ events.left # "press" =>
                /\ inject' = inject
                /\ velocityTex' = velocityTex
                /\ densityTex' = densityTex
          /\ lastMouseX' = events'.last[2]
          /\ lastMouseY' = events'.last[3]
          /\ mousePressed' = mousePressed
    /\ ButtonStep =>
          /\ inject' = inject
          /\ lastMouseX' = lastMouseX /\ lastMouseY' = lastMouseY
          /\ events'.last[2] # "left" => mousePressed' = mousePressed
          /\ events'.last[2] = "left" =>
                mousePressed' = IF events'.last[3] = "press" THEN 1 ELSE 0

\* the pressed state is the action of the most recent left-button event, and
\* the recorded position is that of the most recent cursor move
PointerState ==
    /\ (mousePressed # 0) <=> (events.left = "press")
    /\ events.cursor # <<>> => <<lastMouseX, lastMouseY>> = events.cursor

LastCandidate ==
    Candidate(search.omegaMin, search.omegaMax, search.numBins, search.numBins - 1)

\* the velocity after one impulse step from cleared textures with a given omega
ImpulseStep(omega, n) ==
    CHOOSE out \in {GradientSubtract(SolveFrom(ZeroField, Divergence(adv), omega, 0, n), adv) :
                       adv \in {Advect(SetupImpulseTest)}} : TRUE

\* when runOmegaSearch has returned: one score per candidate, pressureOmega
\* the last candidate, the fields those of the last candidate's impulse step
SearchSideEffects ==
    (search.state = "done") =>
        /\ Len(search.tested) = search.numBins
        /\ pressureOmega = LastCandidate
        /\ pressureOmega = search.omegaMax
        /\ pressureOmega = search.tested[search.numBins].omega
        /\ velocityTex[currentVel] = ImpulseStep(pressureOmega, pressureIterations)
        /\ postDivergenceTex = Divergence(velocityTex[currentVel])
        /\ EvaluateConvergence(statsBuffer).worstBin
               = search.tested[search.numBins].worstBin

\* the iteration budget is never assigned by the search
BudgetStep == pressureIterations' = pressureIterations

\* C30: side effects of the omega search.  When runOmegaSearch has returned,
\* pressureOmega is the last candidate tested, which is omegaMax, whether or
\* not that candidate is the best; pressureIterations has not been changed by
\* any step of the search; and the fields hold the result of the single
\* impulse step of the last candidate.
C30_SearchSideEffects == [](SearchSideEffects) /\ [][BudgetStep]_vars

\* the search has returned with a best omega that is not the omega it leaves
\* in pressureOmega
C30_Witness ==
    /\ search.state = "done"
    /\ search.bestOmega # pressureOmega
    /\ pressureOmega = search.omegaMax

====
